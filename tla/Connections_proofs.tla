-------------------------- MODULE Connections_proofs --------------------------
(***************************************************************************)
(* What a connection shows agrees with its row, and an OAuth session is    *)
(* used once, for any number of rows, pages, sessions and operations.      *)
(***************************************************************************)
EXTENDS Connections, TLAPS

RowType == [page : Pages \cup {None}, status : Statuses, token : Tokens \cup {None}, error : Errors]
RequestType ==
  [op : Ops, row : Rows \cup {None}, page : Pages \cup {None}, seen : RowType,
   session : Sessions \cup {None}, alone : BOOLEAN]

RowOps == {"update", "status", "disconnect", "delete", "sync", "subscribe", "send", "expire"}
SessionOps == {"complete", "choose", "forget"}

\* What an operation works on, and that the row of one that is alone is as it loaded it.
Loaded ==
  \A r \in Requests :
    /\ request[r].op \in RowOps => request[r].row \in Rows
    /\ request[r].op \in SessionOps => request[r].session \in Sessions
    /\ request[r].alone /\ request[r].row # None => row[request[r].row] = request[r].seen

\* StatusAgrees of one row, `token` being the one the platform refused.
Agrees(c, token) ==
  /\ c.status = "CONNECTED" => c.token # None /\ c.error = "none"
  /\ c.status = "PENDING" => c.token = None /\ c.error = "none"
  /\ c.status \in {"ERROR", "ACTION_REQUIRED"} => c.error # "none"
  /\ c.status = "ACTION_REQUIRED" /\ c.error = "token" => c.token = token

\* A session that has connected a row is being deleted, or nobody can use it any more.
Forgetting(s) == \E q \in Requests : request[q].op = "forget" /\ request[q].session = s
Spent(s) ==
  /\ oauth[s].redis = "none" /\ oauth[s].memory = "none"
  /\ \A q \in Requests :
       request[q].op \in {"complete", "choose"} /\ request[q].session = s => ~request[q].alone
UsedIsSpent ==
  \A s \in Sessions \ leftover : used[s] # 0 => used[s] = 1 /\ (Forgetting(s) \/ Spent(s))

IInv == TypeOK /\ Loaded /\ StatusAgrees /\ UsedIsSpent

LEMMA SameType == TypeOK <=>
  /\ row \in [Rows -> RowType]
  /\ oauth \in [Sessions -> [redis : Payloads, memory : Payloads]]
  /\ request \in [Requests -> RequestType]
  /\ served \in Nat
  /\ refused \in [Rows -> Tokens \cup {None}]
  /\ loose \subseteq Rows
  /\ used \in [Sessions -> Nat]
  /\ leftover \subseteq Sessions
  BY DEF TypeOK, RowType, RequestType

LEMMA NextType ==
  ASSUME row' \in [Rows -> RowType],
         oauth' \in [Sessions -> [redis : Payloads, memory : Payloads]],
         request' \in [Requests -> RequestType],
         served' \in Nat,
         refused' \in [Rows -> Tokens \cup {None}],
         loose' \subseteq Rows,
         used' \in [Sessions -> Nat],
         leftover' \subseteq Sessions
  PROVE  TypeOK'
  BY DEF TypeOK, RowType, RequestType

LEMMA SameAgrees == StatusAgrees <=> \A x \in Rows \ loose : Exists(x) => Agrees(row[x], refused[x])
  BY DEF StatusAgrees, Agrees

LEMMA Nothing == NoRow \in RowType /\ NoRequest \in RequestType
  BY DEF NoRow, NoRequest, RowType, RequestType, Statuses, Errors, Ops

LEMMA InitInv == Init => IInv
<1> SUFFICES ASSUME Init PROVE IInv
  OBVIOUS
<1>1. TypeOK
  <2>1. [redis |-> "none", memory |-> "none"] \in [redis : Payloads, memory : Payloads]
    BY DEF Payloads
  <2>2. QED  BY <2>1, Nothing, SameType DEF Init
<1>2. Loaded
  BY DEF Init, Loaded, NoRequest, RowOps, SessionOps
<1>3. StatusAgrees /\ UsedIsSpent
  BY DEF Init, StatusAgrees, UsedIsSpent, Exists, NoRow
<1>4. QED  BY <1>1, <1>2, <1>3 DEF IInv

--------------------------------------------------------------------------------
\* An operation that begins.
LEMMA BeginInv ==
  ASSUME IInv, NEW r \in Requests, NEW asked \in RequestType, Begin(r, asked),
         asked.row # None => row[asked.row] = asked.seen,
         asked.op \in RowOps => asked.row \in Rows,
         asked.op \in SessionOps => asked.session \in Sessions,
         asked.op \in {"complete", "choose"} =>
           oauth[asked.session].redis # "none" \/ oauth[asked.session].memory # "none"
  PROVE  IInv'
<1>1. /\ request' = [request EXCEPT ![r] = asked] /\ served' = served + 1 /\ request[r].op = "none"
      /\ UNCHANGED <<row, refused, loose, oauth, used, leftover>>
  BY DEF Begin, UnchangedRows, UnchangedStore
<1>2. TypeOK
  BY DEF IInv
<1>3. request'[r] = asked /\ \A q \in Requests \ {r} : request'[q] = request[q]
  BY <1>1, <1>2, SameType
<1>4. TypeOK'
  <2>1. request' \in [Requests -> RequestType] /\ served' \in Nat
    BY <1>1, <1>2, SameType
  <2>2. QED  BY <1>1, <1>2, <2>1, SameType, NextType
<1>5. Loaded'
  BY <1>1, <1>3 DEF IInv, Loaded
<1>6. StatusAgrees'
  BY <1>1 DEF IInv, StatusAgrees, Exists
<1>7. UsedIsSpent'
  <2> SUFFICES ASSUME NEW s \in Sessions \ leftover, used[s] # 0
               PROVE  used[s] = 1 /\ (Forgetting(s)' \/ Spent(s)')
    BY <1>1 DEF UsedIsSpent
  <2>1. used[s] = 1 /\ (Forgetting(s) \/ Spent(s))
    BY DEF IInv, UsedIsSpent
  <2>2. CASE Forgetting(s)
    BY <2>1, <2>2, <1>1, <1>3 DEF Forgetting
  <2>3. CASE Spent(s)
    BY <2>1, <2>3, <1>1, <1>3 DEF Spent
  <2>4. QED  BY <2>1, <2>2, <2>3
<1>8. QED  BY <1>4, <1>5, <1>6, <1>7 DEF IInv

LEMMA BeginsInv ==
  ASSUME IInv, NEW r \in Requests, BeginOperation(r)
  PROVE  IInv'
<1>1. TypeOK
  BY DEF IInv
<1>2. CASE BeginOnRow(r)
  <2>1. PICK x \in Rows, op \in RowOps :
          Begin(r, [NoRequest EXCEPT !.op = op, !.row = x, !.page = row[x].page, !.seen = row[x]])
    BY <1>2 DEF BeginOnRow, RowOps
  <2> DEFINE asked == [NoRequest EXCEPT !.op = op, !.row = x, !.page = row[x].page, !.seen = row[x]]
  <2>2. row[x] \in RowType /\ op \in Ops
    BY <1>1, SameType DEF RowOps, Ops
  <2>3. ASSUME NEW t \in RequestType,
               NEW u, u = [t EXCEPT !.op = op, !.row = x, !.page = row[x].page, !.seen = row[x]]
        PROVE  u \in RequestType /\ u.op = op /\ u.row = x /\ u.seen = row[x]
    <3>1. row[x].page \in Pages \cup {None}
      BY <2>2 DEF RowType
    <3>2. QED  BY <2>2, <2>3, <3>1 DEF RequestType
  <2>4. asked \in RequestType /\ asked.op = op /\ asked.row = x /\ asked.seen = row[x]
    BY ONLY <2>3, Nothing
  <2>5. QED  BY <2>1, <2>4, BeginInv DEF RowOps, SessionOps
<1>3. ASSUME NEW op \in {"connect", "choose"}, NEW p \in Pages, NEW s \in Sessions \cup {None},
             Begin(r, Upsert(op, p, s)),
             op = "choose" => s \in Sessions /\ (oauth[s].redis # "none" \/ oauth[s].memory # "none")
      PROVE  IInv'
  <2> DEFINE asked == Upsert(op, p, s)
  <2>1. CASE Existing(p) = {}
    <3>1. asked = [op |-> op, row |-> None, page |-> p, seen |-> NoRow, session |-> s, alone |-> TRUE]
      BY <2>1 DEF Upsert, NoRequest
    <3>2. asked \in RequestType
      BY <3>1, Nothing DEF RequestType, Ops
    <3>3. QED  BY <1>3, <3>1, <3>2, BeginInv DEF RowOps, SessionOps
  <2>2. CASE Existing(p) # {}
    <3>1. PICK x \in Rows : asked = [op |-> op, row |-> x, page |-> p, seen |-> row[x],
                                     session |-> s, alone |-> TRUE]
      <4>1. (CHOOSE y \in Existing(p) : TRUE) \in Rows
        BY <2>2 DEF Existing, RowsOf
      <4>2. QED  BY <2>2, <4>1 DEF Upsert, NoRequest
    <3>2. asked \in RequestType
      BY <3>1, <1>1, SameType DEF RequestType, Ops
    <3>3. QED  BY <1>3, <3>1, <3>2, BeginInv DEF RowOps, SessionOps
  <2>3. QED  BY <2>1, <2>2
<1>4. CASE BeginConnect(r)
  BY <1>3, <1>4 DEF BeginConnect
<1>5. CASE BeginChoose(r)
  <2>1. PICK s \in Sessions, p \in Pages : "pages" \in Got(s) /\ Begin(r, Upsert("choose", p, s))
    BY <1>5 DEF BeginChoose
  <2>2. oauth[s].redis # "none" \/ oauth[s].memory # "none"
    BY <2>1 DEF Got
  <2>3. QED  BY <1>3, <2>1, <2>2
<1>6. CASE BeginComplete(r)
  <2>1. PICK s \in Sessions : Got(s) # {"none"} /\ Begin(r, [NoRequest EXCEPT !.op = "complete", !.session = s])
    BY <1>6 DEF BeginComplete
  <2> DEFINE asked == [NoRequest EXCEPT !.op = "complete", !.session = s]
  <2>2. NoRequest.row = None
    BY DEF NoRequest
  <2>3. ASSUME NEW t \in RequestType, NEW u, u = [t EXCEPT !.op = "complete", !.session = s]
        PROVE  u \in RequestType /\ u.op = "complete" /\ u.row = t.row /\ u.session = s
    BY <2>3 DEF RequestType, Ops
  <2>4. asked \in RequestType /\ asked.op = "complete" /\ asked.row = None /\ asked.session = s
    BY ONLY <2>2, <2>3, Nothing
  <2>5. oauth[s].redis # "none" \/ oauth[s].memory # "none"
    BY <2>1 DEF Got
  <2>6. QED  BY <2>1, <2>4, <2>5, BeginInv DEF RowOps, SessionOps
<1>7. QED  BY <1>2, <1>4, <1>5, <1>6 DEF BeginOperation
--------------------------------------------------------------------------------
\* An operation that goes on, alone only if it was and nothing it loaded has been written.
Kept(q, written) ==
  /\ request'[q].op = request[q].op /\ request'[q].row = request[q].row
  /\ request'[q].seen = request[q].seen /\ request'[q].session = request[q].session
  /\ request'[q].alone =>
       request[q].alone /\ {request[q].row, request[q].page, request[q].session} \cap written = {}

Idle(q) == request[q].op = "none" /\ request'[q] = NoRequest

LEMMA FinishedKeeps ==
  ASSUME TypeOK, NEW r \in Requests, NEW written, NEW next \in RequestType,
         \/ request' = [Finished(r, written) EXCEPT ![r] = next]
         \/ request' = Finished(r, written) /\ next = NoRequest
  PROVE  /\ request' \in [Requests -> RequestType] /\ request'[r] = next
         /\ \A q \in Requests \ {r} : Idle(q) \/ Kept(q, written)
<1>1. request'[r] = next
  BY DEF Finished
<1>2. ASSUME NEW q \in Requests \ {r}
      PROVE  request'[q] \in RequestType /\ (Idle(q) \/ Kept(q, written))
  <2>1. CASE request[q].op = "none"
    <3>1. request'[q] = NoRequest
      BY <2>1 DEF Finished
    <3>2. QED  BY <2>1, <3>1, Nothing DEF Idle
  <2>2. CASE request[q].op # "none"
    <3> DEFINE still == request[q].alone /\
                         {request[q].row, request[q].page, request[q].session} \cap written = {}
    <3>1. request'[q] = [request[q] EXCEPT !.alone = still]
      BY <2>2 DEF Finished
    <3>2. request[q] \in RequestType
      BY SameType
    <3>3. ASSUME NEW t \in RequestType, NEW b \in BOOLEAN, NEW u, u = [t EXCEPT !.alone = b]
          PROVE  /\ u \in RequestType /\ u.op = t.op /\ u.row = t.row /\ u.seen = t.seen
                 /\ u.session = t.session /\ u.alone = b
      BY <3>3 DEF RequestType
    <3>4. still \in BOOLEAN
      OBVIOUS
    <3> HIDE DEF still
    <3>5. /\ request'[q] \in RequestType /\ request'[q].op = request[q].op
          /\ request'[q].row = request[q].row /\ request'[q].seen = request[q].seen
          /\ request'[q].session = request[q].session /\ request'[q].alone = still
      BY ONLY <3>1, <3>2, <3>3, <3>4
    <3>6. QED  BY <3>5 DEF Kept, still
  <2>3. QED  BY <2>1, <2>2
<1>3. request' \in [Requests -> RequestType]
  <2>1. DOMAIN request' = Requests /\ request' = [q \in Requests |-> request'[q]]
    BY DEF Finished
  <2>2. \A q \in Requests : request'[q] \in RequestType
    BY <1>1, <1>2
  <2>3. QED  BY <2>1, <2>2
<1>4. QED  BY <1>1, <1>2, <1>3

\* A step that leaves `used` alone keeps UsedIsSpent.
LEMMA SpentKept ==
  ASSUME IInv, used' = used, leftover \subseteq leftover',
         \A q \in Requests :
           \/ \E written : Kept(q, written)
           \/ /\ request'[q].op \notin {"complete", "choose"}
              /\ request[q].op = "forget" => request[q].session \in leftover',
         \A s \in Sessions \ leftover' : used[s] # 0 /\ Spent(s) =>
           oauth'[s].redis = "none" /\ oauth'[s].memory = "none"
  PROVE  UsedIsSpent'
<1> SUFFICES ASSUME NEW s \in Sessions \ leftover', used[s] # 0
             PROVE  used[s] = 1 /\ (Forgetting(s)' \/ Spent(s)')
  BY DEF UsedIsSpent
<1>1. used[s] = 1 /\ (Forgetting(s) \/ Spent(s))
  BY DEF IInv, UsedIsSpent
<1>2. CASE Forgetting(s)
  BY <1>1, <1>2 DEF Forgetting, Kept
<1>3. CASE Spent(s)
  BY <1>1, <1>3 DEF Spent, Kept
<1>4. QED  BY <1>1, <1>2, <1>3

\* What a commit leaves of the requests: r is over, or deletes its session next.
Over(r) ==
  /\ request'[r].row = None /\ request'[r].op \in {"none", "forget"}
  /\ request'[r].op = "forget" => request'[r].session \in Sessions
  /\ request' \in [Requests -> RequestType]

\* A commit of r on its row, of what follows from the values it loaded.
LEMMA StoreInv ==
  ASSUME IInv, NEW r \in Requests, request[r].row \in Rows, NEW new \in RowType,
         NEW settled \in BOOLEAN, Store(r, new, settled),
         settled => Agrees(new, request[r].seen.token),
         NEW written, request[r].row \in written, Over(r),
         \A q \in Requests \ {r} : Idle(q) \/ Kept(q, written)
  PROVE  /\ row' \in [Rows -> RowType] /\ refused' \in [Rows -> Tokens \cup {None}]
         /\ loose' \subseteq Rows /\ served' = served
         /\ Loaded' /\ StatusAgrees'
<1> DEFINE x == request[r].row  seen == request[r].seen
<1> HIDE DEF x, seen
<1>1. /\ x \in Rows /\ Exists(x) /\ x \in written /\ served' = served
      /\ row' = [row EXCEPT ![x] = [c \in DOMAIN @ |-> Assigned(new[c], seen[c], @[c])]]
      /\ loose' = IF request[r].alone /\ settled THEN loose \ {x} ELSE loose \cup {x}
      /\ refused' = [refused EXCEPT ![x] = IF new.error = "token" /\ new.status = "ACTION_REQUIRED"
                                           THEN seen.token ELSE @]
  BY DEF Store, x, seen
<1>2. /\ row \in [Rows -> RowType] /\ refused \in [Rows -> Tokens \cup {None}] /\ loose \subseteq Rows
      /\ seen \in RowType /\ row[x] \in RowType
  BY <1>1, SameType DEF IInv, RequestType, seen
<1> DEFINE stored == [c \in DOMAIN row[x] |-> Assigned(new[c], seen[c], row[x][c])]
<1>3. stored \in RowType
  <2>1. DOMAIN row[x] = {"page", "status", "token", "error"}
    BY <1>2 DEF RowType
  <2>2. stored = [page |-> Assigned(new.page, seen.page, row[x].page),
                  status |-> Assigned(new.status, seen.status, row[x].status),
                  token |-> Assigned(new.token, seen.token, row[x].token),
                  error |-> Assigned(new.error, seen.error, row[x].error)]
    BY <2>1
  <2>3. QED  BY <2>2, <1>2 DEF RowType, Assigned
<1>4. request[r].alone /\ settled => stored = new
  <2>1. request[r].alone => row[x] = seen
    BY <1>1, ConnectionsAssumption DEF IInv, Loaded, x, seen
  <2>2. DOMAIN new = DOMAIN seen /\ new = [c \in DOMAIN new |-> new[c]]
    BY <1>2 DEF RowType
  <2>3. QED  BY <2>1, <2>2 DEF Assigned
<1> HIDE DEF stored
<1>5. row' = [row EXCEPT ![x] = stored]
  BY <1>1 DEF stored
<1>6. row' \in [Rows -> RowType] /\ refused' \in [Rows -> Tokens \cup {None}] /\ loose' \subseteq Rows
  <2>1. seen.token \in Tokens \cup {None}
    BY <1>2 DEF RowType
  <2>2. QED  BY <1>1, <1>2, <1>3, <1>5, <2>1
<1>7. Loaded'
  <2> SUFFICES ASSUME NEW q \in Requests
               PROVE  /\ request'[q].op \in RowOps => request'[q].row \in Rows
                      /\ request'[q].op \in SessionOps => request'[q].session \in Sessions
                      /\ request'[q].alone /\ request'[q].row # None =>
                           row'[request'[q].row] = request'[q].seen
    BY DEF Loaded
  <2>1. CASE q = r
    BY <2>1 DEF Over, RowOps, SessionOps
  <2>2. CASE q # r /\ Idle(q)
    BY <2>2 DEF Idle, NoRequest, RowOps, SessionOps
  <2>3. CASE q # r /\ Kept(q, written)
    BY <2>3, <1>1, <1>2, <1>5 DEF Kept, IInv, Loaded
  <2>4. QED  BY <2>1, <2>2, <2>3
<1>8. StatusAgrees'
  <2> SUFFICES ASSUME NEW y \in Rows \ loose', Exists(y)'
               PROVE  Agrees(row'[y], refused'[y])
    BY DEF StatusAgrees, Agrees
  <2>1. CASE y = x
    <3>1. request[r].alone /\ settled /\ row'[y] = new
      BY <2>1, <1>1, <1>2, <1>4, <1>5
    <3>2. refused'[y] = IF new.error = "token" /\ new.status = "ACTION_REQUIRED"
                        THEN seen.token ELSE refused[x]
      BY <2>1, <1>1, <1>2
    <3>3. QED  BY <3>1, <3>2 DEF Agrees, seen
  <2>2. CASE y # x
    <3>1. row'[y] = row[y] /\ refused'[y] = refused[y] /\ y \notin loose
      BY <2>2, <1>1, <1>2, <1>5
    <3>2. QED  BY <3>1, SameAgrees DEF IInv, Exists
  <2>3. QED  BY <2>1, <2>2
<1>9. QED  BY <1>1, <1>6, <1>7, <1>8

\* The operations on one connection: the new values agree with themselves.
LEMMA RowCommitInv ==
  ASSUME IInv, NEW r \in Requests, request[r].row \in Rows, NEW new \in RowType,
         NEW settled \in BOOLEAN, Store(r, new, settled),
         settled => Agrees(new, request[r].seen.token),
         NEW written, request[r].row \in written, request' = Finished(r, written),
         UnchangedStore, request[r].op # "forget"
  PROVE  IInv'
<1>1. TypeOK
  BY DEF IInv
<1>2. /\ request' \in [Requests -> RequestType] /\ request'[r] = NoRequest
      /\ \A q \in Requests \ {r} : Idle(q) \/ Kept(q, written)
  BY <1>1, FinishedKeeps, Nothing
<1>3. Over(r)
  BY <1>2 DEF Over, NoRequest
<1>4. /\ row' \in [Rows -> RowType] /\ refused' \in [Rows -> Tokens \cup {None}]
      /\ loose' \subseteq Rows /\ served' = served
      /\ Loaded' /\ StatusAgrees'
  BY <1>2, <1>3, StoreInv
<1>5. oauth' = oauth /\ used' = used /\ leftover' = leftover
  BY DEF UnchangedStore
<1>6. TypeOK'
  BY <1>1, <1>2, <1>4, <1>5, SameType, NextType
<1>7. UsedIsSpent'
  BY <1>2, <1>5, SpentKept DEF Idle, NoRequest, Spent
<1>8. QED  BY <1>4, <1>6, <1>7 DEF IInv

LEMMA NewValues ==
  ASSUME NEW seen \in RowType
  PROVE  /\ \A p \in Pages, token \in Tokens \cup {None}, error \in Errors :
              LET c == [seen EXCEPT !.page = p, !.token = token, !.error = error]
              IN  SyncStatus(c) \in RowType /\ Agrees(SyncStatus(c), seen.token)
         /\ seen.token # None => Working(seen) \in RowType /\ Agrees(Working(seen), seen.token)
         /\ \A error \in {"token", "other"} :
              Failed(seen, error) \in RowType /\ Agrees(Failed(seen, error), seen.token)
<1>1. ASSUME NEW p \in Pages, NEW token \in Tokens \cup {None}, NEW error \in Errors,
             NEW c, c = [seen EXCEPT !.page = p, !.token = token, !.error = error]
      PROVE  SyncStatus(c) \in RowType /\ Agrees(SyncStatus(c), seen.token)
  <2>1. c \in RowType
    BY <1>1 DEF RowType
  <2>2. QED  BY <2>1 DEF SyncStatus, Agrees, RowType, Statuses, Errors
<1>2. seen.token # None => Working(seen) \in RowType /\ Agrees(Working(seen), seen.token)
  BY DEF Working, Agrees, RowType, Statuses, Errors
<1>3. ASSUME NEW error \in {"token", "other"}
      PROVE  Failed(seen, error) \in RowType /\ Agrees(Failed(seen, error), seen.token)
  BY DEF Failed, Agrees, RowType, Statuses, Errors
<1>4. QED  BY <1>1, <1>2, <1>3

LEMMA RowOpsInv ==
  ASSUME IInv, NEW r \in Requests,
         \/ CommitUpdate(r) \/ CommitStatus(r) \/ CommitDisconnect(r) \/ CommitSync(r)
         \/ CommitSubscribe(r) \/ CommitSend(r) \/ CommitExpire(r)
  PROVE  IInv'
<1> DEFINE seen == request[r].seen
<1>1. request[r].op \in RowOps /\ request[r].op # "forget"
  BY DEF CommitUpdate, CommitStatus, CommitDisconnect, CommitSync, CommitSubscribe, CommitSend,
         CommitExpire, IsOp, RowOps
<1>2. request[r].row \in Rows /\ seen \in RowType /\ seen.token \in Tokens \cup {None}
  BY <1>1, SameType DEF IInv, Loaded, RequestType, RowType
<1>3. ASSUME NEW new \in RowType, Agrees(new, seen.token), Store(r, new, TRUE), Ends(r)
      PROVE  IInv'
  BY <1>1, <1>2, <1>3, RowCommitInv DEF Ends
<1>4. CASE CommitUpdate(r)
  <2>1. PICK p, token, error :
          /\ p \in Pages /\ token \in Tokens \cup {None, seen.token} /\ error \in {"none", "other", seen.error}
          /\ Store(r, SyncStatus([seen EXCEPT !.page = p, !.token = token, !.error = error]), TRUE)
          /\ request' = Finished(r, {request[r].row, p})
    BY <1>4 DEF CommitUpdate
  <2>2. token \in Tokens \cup {None} /\ error \in Errors
    BY <2>1, <1>2 DEF RowType, Errors
  <2> DEFINE new == SyncStatus([seen EXCEPT !.page = p, !.token = token, !.error = error])
  <2>3. new \in RowType /\ Agrees(new, seen.token)
    BY <2>1, <2>2, <1>2, NewValues
  <2> HIDE DEF new
  <2>4. Store(r, new, TRUE) /\ UnchangedStore
    BY <2>1, <1>4 DEF new, CommitUpdate
  <2>5. QED  BY <2>1, <2>3, <2>4, <1>1, <1>2, RowCommitInv
<1>5. CASE CommitStatus(r)
  <2>1. PICK status \in Statuses, error \in {"none", "other"} :
          Store(r, [seen EXCEPT !.status = status, !.error = error], FALSE) /\ Ends(r)
    BY <1>5 DEF CommitStatus
  <2>2. [seen EXCEPT !.status = status, !.error = error] \in RowType
    BY <1>2 DEF RowType, Errors
  <2>3. QED  BY <2>1, <2>2, <1>1, <1>2, RowCommitInv DEF Ends
<1>6. CASE CommitDisconnect(r)
  <2> DEFINE new == [seen EXCEPT !.status = "DISCONNECTED", !.token = None, !.error = "none"]
  <2>1. new \in RowType /\ Agrees(new, seen.token)
    BY <1>2 DEF RowType, Statuses, Errors, Agrees
  <2>2. QED  BY <2>1, <1>3, <1>6 DEF CommitDisconnect
<1>7. CASE CommitExpire(r)
  <2> DEFINE new == [seen EXCEPT !.status = "ACTION_REQUIRED", !.error = "other"]
  <2>1. new \in RowType /\ Agrees(new, seen.token)
    BY <1>2 DEF RowType, Statuses, Errors, Agrees
  <2>2. QED  BY <2>1, <1>3, <1>7 DEF CommitExpire
<1>8. CASE CommitSync(r) \/ CommitSubscribe(r) \/ CommitSend(r)
  <2>1. \/ Store(r, Working(seen), TRUE) /\ seen.token # None
        \/ \E error \in {"token", "other"} : Store(r, Failed(seen, error), TRUE)
    BY <1>8 DEF CommitSync, CommitSubscribe, CommitSend, CallFails
  <2>2. Ends(r)
    BY <1>8 DEF CommitSync, CommitSubscribe, CommitSend
  <2>3. QED  BY <2>1, <2>2, <1>2, <1>3, NewValues
<1>9. QED  BY <1>4, <1>5, <1>6, <1>7, <1>8

LEMMA DeleteInv ==
  ASSUME IInv, NEW r \in Requests, CommitDelete(r)
  PROVE  IInv'
<1> DEFINE x == request[r].row  written == {request[r].row}
<1>1. TypeOK /\ request[r].op = "delete" /\ x \in Rows
  BY DEF IInv, Loaded, CommitDelete, IsOp, RowOps
<1>2. /\ row' = [row EXCEPT ![x] = NoRow] /\ refused' = [refused EXCEPT ![x] = None]
      /\ loose' = loose \ {x} /\ served' = served /\ request' = Finished(r, written)
      /\ oauth' = oauth /\ used' = used /\ leftover' = leftover
  BY DEF CommitDelete, Ends, UnchangedStore
<1>3. /\ request' \in [Requests -> RequestType] /\ request'[r] = NoRequest
      /\ \A q \in Requests \ {r} : Idle(q) \/ Kept(q, written)
  BY <1>1, <1>2, FinishedKeeps, Nothing
<1>in. x \in written
  OBVIOUS
<1> HIDE DEF x, written
<1>4. TypeOK'
  BY <1>1, <1>2, <1>3, SameType, NextType, Nothing
<1>5. Loaded'
  <2> SUFFICES ASSUME NEW q \in Requests
               PROVE  /\ request'[q].op \in RowOps => request'[q].row \in Rows
                      /\ request'[q].op \in SessionOps => request'[q].session \in Sessions
                      /\ request'[q].alone /\ request'[q].row # None =>
                           row'[request'[q].row] = request'[q].seen
    BY DEF Loaded
  <2>1. CASE request'[q] = NoRequest
    BY <2>1 DEF NoRequest, RowOps, SessionOps
  <2>2. CASE q # r /\ Kept(q, written)
    BY <2>2, <1>1, <1>2, <1>in, SameType DEF Kept, IInv, Loaded
  <2>3. QED  BY <2>1, <2>2, <1>3 DEF Idle
<1>6. StatusAgrees'
  <2> SUFFICES ASSUME NEW y \in Rows \ loose', Exists(y)'
               PROVE  Agrees(row'[y], refused'[y])
    BY DEF StatusAgrees, Agrees
  <2>1. y # x
    BY <1>1, <1>2, SameType DEF Exists, NoRow
  <2>2. row'[y] = row[y] /\ refused'[y] = refused[y] /\ y \notin loose
    BY <2>1, <1>1, <1>2, SameType
  <2>3. QED  BY <2>2, SameAgrees DEF IInv, Exists
<1>7. UsedIsSpent'
  BY <1>1, <1>2, <1>3, SpentKept DEF Idle, NoRequest, Spent
<1>8. QED  BY <1>4, <1>5, <1>6, <1>7 DEF IInv

--------------------------------------------------------------------------------
\* A row is added.
LEMMA NewRowInv ==
  ASSUME IInv, \E x \in Rows : Spare(x), NEW new \in RowType,
         row' = [row EXCEPT ![NewRow] = new], refused' = refused, loose' = loose,
         \A token : Agrees(new, token),
         \A q \in Requests : \/ /\ request'[q].row = None /\ request'[q].op \in {"none", "forget"}
                                /\ request'[q].op = "forget" => request'[q].session \in Sessions
                             \/ \E written : Kept(q, written)
  PROVE  row' \in [Rows -> RowType] /\ Loaded' /\ StatusAgrees'
<1> DEFINE x == NewRow
<1>1. x \in Rows /\ Spare(x)
  BY DEF NewRow
<1> HIDE DEF x
<1>2. row \in [Rows -> RowType] /\ request \in [Requests -> RequestType] /\ row' = [row EXCEPT ![x] = new]
  BY SameType DEF IInv, x
<1>3. Loaded'
  <2> SUFFICES ASSUME NEW q \in Requests
               PROVE  /\ request'[q].op \in RowOps => request'[q].row \in Rows
                      /\ request'[q].op \in SessionOps => request'[q].session \in Sessions
                      /\ request'[q].alone /\ request'[q].row # None =>
                           row'[request'[q].row] = request'[q].seen
    BY DEF Loaded
  <2>1. CASE /\ request'[q].row = None /\ request'[q].op \in {"none", "forget"}
             /\ request'[q].op = "forget" => request'[q].session \in Sessions
    BY <2>1 DEF RowOps, SessionOps
  <2>2. CASE \E written : Kept(q, written)
    <3>1. request[q].row # x
      BY <1>1 DEF Spare
    <3>2. QED  BY <2>2, <3>1, <1>1, <1>2 DEF Kept, IInv, Loaded, RequestType
  <2>3. QED  BY <2>1, <2>2
<1>4. StatusAgrees'
  <2> SUFFICES ASSUME NEW y \in Rows \ loose, Exists(y)'
               PROVE  Agrees(row'[y], refused'[y])
    BY DEF StatusAgrees, Agrees
  <2>1. CASE y = x
    BY <2>1, <1>1, <1>2
  <2>2. CASE y # x
    BY <2>2, <1>1, <1>2, SameAgrees DEF IInv, Exists
  <2>3. QED  BY <2>1, <2>2
<1>5. QED  BY <1>1, <1>2, <1>3, <1>4

LEMMA Made ==
  ASSUME NEW p \in Pages \cup {None}, NEW token \in Tokens \cup {None}
  PROVE  LET made == [NoRow EXCEPT !.page = p, !.token = token]
         IN  /\ made \in RowType /\ made.token = token
             /\ made.status = "PENDING" /\ made.error = "none"
<1>1. ASSUME NEW t \in RowType, NEW u, u = [t EXCEPT !.page = p, !.token = token]
      PROVE  u \in RowType /\ u.token = token /\ u.status = t.status /\ u.error = t.error
  BY <1>1 DEF RowType
<1>2. NoRow \in RowType /\ NoRow.status = "PENDING" /\ NoRow.error = "none"
  BY Nothing DEF NoRow
<1>3. QED  BY ONLY <1>1, <1>2

LEMMA CreateInv ==
  ASSUME IInv, CreateConnection
  PROVE  IInv'
<1>1. PICK p, token :
        /\ p \in Pages /\ token \in Tokens \cup {None}
        /\ row' = [row EXCEPT ![NewRow] = SyncStatus([NoRow EXCEPT !.page = p, !.token = token])]
        /\ request' = [q \in Requests |-> [request[q] EXCEPT !.alone = @ /\ request[q].page # p]]
  BY DEF CreateConnection
<1>2. /\ \E x \in Rows : Spare(x)
      /\ refused' = refused /\ loose' = loose /\ oauth' = oauth /\ used' = used /\ leftover' = leftover
      /\ served' = served + 1
  BY DEF CreateConnection, UnchangedStore
<1>3. TypeOK
  BY DEF IInv
<1> DEFINE made == [NoRow EXCEPT !.page = p, !.token = token]
           new == SyncStatus(made)
<1>4. new \in RowType /\ \A t : Agrees(new, t)
  <2>1. made \in RowType /\ made.token = token /\ made.status = "PENDING" /\ made.error = "none"
    BY <1>1, Made
  <2> HIDE DEF made
  <2>2. QED  BY <1>1, <2>1 DEF SyncStatus, Agrees, RowType, Statuses, Errors
<1> HIDE DEF new, made
<1>5. row' = [row EXCEPT ![NewRow] = new]
  BY <1>1 DEF new, made
<1>6. ASSUME NEW q \in Requests
      PROVE  request'[q] \in RequestType /\ Kept(q, {})
  <2> DEFINE still == request[q].alone /\ request[q].page # p
  <2>1. request'[q] = [request[q] EXCEPT !.alone = still] /\ request[q] \in RequestType
    BY <1>1, <1>3, SameType
  <2>2. ASSUME NEW t \in RequestType, NEW b \in BOOLEAN, NEW u, u = [t EXCEPT !.alone = b]
        PROVE  /\ u \in RequestType /\ u.op = t.op /\ u.row = t.row /\ u.seen = t.seen
               /\ u.session = t.session /\ u.alone = b
    BY <2>2 DEF RequestType
  <2>3. still \in BOOLEAN
    OBVIOUS
  <2> HIDE DEF still
  <2>4. /\ request'[q] \in RequestType /\ request'[q].op = request[q].op
        /\ request'[q].row = request[q].row /\ request'[q].seen = request[q].seen
        /\ request'[q].session = request[q].session /\ request'[q].alone = still
    BY ONLY <2>1, <2>2, <2>3
  <2>5. QED  BY <2>4 DEF Kept, still
<1>7. request' \in [Requests -> RequestType]
  BY <1>1, <1>6
<1>8. row' \in [Rows -> RowType] /\ Loaded' /\ StatusAgrees'
  BY <1>2, <1>4, <1>5, <1>6, NewRowInv
<1>9. TypeOK'
  BY <1>2, <1>3, <1>7, <1>8, SameType, NextType
<1>10. UsedIsSpent'
  BY <1>2, <1>6, SpentKept DEF Spent
<1>11. QED  BY <1>8, <1>9, <1>10 DEF IInv

\* _upsert_connection, whatever the operation does next.
LEMMA UpsertInv ==
  ASSUME IInv, NEW r \in Requests, NEW next \in RequestType, UpsertRow(r, next),
         next.row = None, next.op \in {"none", "forget"}, next.op = "forget" => next.session \in Sessions
  PROVE  /\ row' \in [Rows -> RowType] /\ refused' \in [Rows -> Tokens \cup {None}]
         /\ loose' \subseteq Rows /\ served' = served /\ Loaded' /\ StatusAgrees'
         /\ request' \in [Requests -> RequestType] /\ request'[r] = next
         /\ \A q \in Requests \ {r} : Idle(q) \/ \E written : Kept(q, written)
<1>1. TypeOK
  BY DEF IInv
<1>2. PICK token \in Tokens :
        IF request[r].row # None
        THEN /\ Store(r, [Working(request[r].seen) EXCEPT !.token = token], TRUE)
             /\ request' = [Finished(r, {request[r].row, request[r].session} \ {None}) EXCEPT ![r] = next]
        ELSE /\ \E x \in Rows : Spare(x)
             /\ row' = [row EXCEPT ![NewRow] = Working([NoRow EXCEPT !.page = request[r].page, !.token = token])]
             /\ request' = [Finished(r, {request[r].page, request[r].session} \ {None}) EXCEPT ![r] = next]
             /\ UNCHANGED <<served, refused, loose>>
  BY DEF UpsertRow
<1>3. request[r] \in RequestType /\ request[r].seen \in RowType /\ token # None
  BY <1>1, <1>2, SameType, ConnectionsAssumption DEF RequestType
<1>4. CASE request[r].row # None
  <2> DEFINE written == {request[r].row, request[r].session} \ {None}
             new == [Working(request[r].seen) EXCEPT !.token = token]
  <2>1. request[r].row \in Rows /\ request[r].row \in written
    BY <1>3, <1>4 DEF RequestType
  <2>2. new \in RowType /\ Agrees(new, request[r].seen.token)
    BY <1>2, <1>3 DEF Working, RowType, Agrees, Statuses, Errors
  <2>3. Store(r, new, TRUE) /\ request' = [Finished(r, written) EXCEPT ![r] = next]
    BY <1>2, <1>4
  <2> HIDE DEF written, new
  <2>4. /\ request' \in [Requests -> RequestType] /\ request'[r] = next
        /\ \A q \in Requests \ {r} : Idle(q) \/ Kept(q, written)
    BY <1>1, <2>3, FinishedKeeps
  <2>5. Over(r)
    BY <2>4 DEF Over
  <2>6. QED  BY <2>1, <2>2, <2>3, <2>4, <2>5, StoreInv
<1>5. CASE request[r].row = None
  <2> DEFINE written == {request[r].page, request[r].session} \ {None}
             made == [NoRow EXCEPT !.page = request[r].page, !.token = token]
             new == Working(made)
  <2>1. new \in RowType /\ \A t : Agrees(new, t)
    <3>1. request[r].page \in Pages \cup {None} /\ token \in Tokens \cup {None}
      BY <1>3 DEF RequestType
    <3>2. made \in RowType /\ made.token = token
      BY ONLY <3>1, Made
    <3> HIDE DEF made
    <3>3. QED  BY <1>3, <3>2 DEF Working, RowType, Agrees, Statuses, Errors
  <2>2. /\ \E x \in Rows : Spare(x)
        /\ row' = [row EXCEPT ![NewRow] = new] /\ request' = [Finished(r, written) EXCEPT ![r] = next]
        /\ served' = served /\ refused' = refused /\ loose' = loose
    BY <1>2, <1>5
  <2> HIDE DEF written, new, made
  <2>3. /\ request' \in [Requests -> RequestType] /\ request'[r] = next
        /\ \A q \in Requests \ {r} : Idle(q) \/ Kept(q, written)
    BY <1>1, <2>2, FinishedKeeps
  <2>4. \A q \in Requests : \/ /\ request'[q].row = None /\ request'[q].op \in {"none", "forget"}
                               /\ request'[q].op = "forget" => request'[q].session \in Sessions
                            \/ \E w : Kept(q, w)
    BY <2>3 DEF Idle, NoRequest
  <2>5. row' \in [Rows -> RowType] /\ Loaded' /\ StatusAgrees'
    BY <2>1, <2>2, <2>4, NewRowInv
  <2>6. QED  BY <2>2, <2>3, <2>5, <1>1, SameType
<1>6. QED  BY <1>4, <1>5

LEMMA ConnectInv ==
  ASSUME IInv, NEW r \in Requests, CommitConnect(r)
  PROVE  IInv'
<1>1. /\ TypeOK /\ request[r].op = "connect" /\ UpsertRow(r, NoRequest)
      /\ oauth' = oauth /\ used' = used /\ leftover' = leftover
  BY DEF IInv, CommitConnect, IsOp, UnchangedStore
<1>2. NoRequest.row = None /\ NoRequest.op = "none"
  BY DEF NoRequest
<1>3. /\ row' \in [Rows -> RowType] /\ refused' \in [Rows -> Tokens \cup {None}]
      /\ loose' \subseteq Rows /\ served' = served /\ Loaded' /\ StatusAgrees'
      /\ request' \in [Requests -> RequestType] /\ request'[r] = NoRequest
      /\ \A q \in Requests \ {r} : Idle(q) \/ \E written : Kept(q, written)
  BY <1>1, <1>2, Nothing, UpsertInv
<1>4. TypeOK'
  BY <1>1, <1>3, SameType, NextType
<1>5. UsedIsSpent'
  BY <1>1, <1>2, <1>3, SpentKept DEF Idle, Spent
<1>6. QED  BY <1>3, <1>4, <1>5 DEF IInv

LEMMA ChooseInv ==
  ASSUME IInv, NEW r \in Requests, CommitChoose(r)
  PROVE  IInv'
<1> DEFINE s == request[r].session
           next == [NoRequest EXCEPT !.op = "forget", !.session = s]
<1>1. /\ TypeOK /\ request[r].op = "choose" /\ UpsertRow(r, next) /\ oauth' = oauth
      /\ used' = [used EXCEPT ![s] = @ + 1]
      /\ leftover' = IF Shared(r) THEN leftover \cup {s} ELSE leftover
  BY DEF IInv, CommitChoose, IsOp
<1>2. s \in Sessions
  BY <1>1 DEF IInv, Loaded, SessionOps
<1>3. next \in RequestType /\ next.op = "forget" /\ next.row = None /\ next.session = s
  <2>1. NoRequest.row = None
    BY DEF NoRequest
  <2>2. ASSUME NEW t \in RequestType, NEW u, u = [t EXCEPT !.op = "forget", !.session = s]
        PROVE  u \in RequestType /\ u.op = "forget" /\ u.row = t.row /\ u.session = s
    BY <1>2, <2>2 DEF RequestType, Ops
  <2>3. QED  BY ONLY <2>1, <2>2, Nothing
<1> HIDE DEF next
<1>4. /\ row' \in [Rows -> RowType] /\ refused' \in [Rows -> Tokens \cup {None}]
      /\ loose' \subseteq Rows /\ served' = served /\ Loaded' /\ StatusAgrees'
      /\ request' \in [Requests -> RequestType] /\ request'[r] = next
      /\ \A q \in Requests \ {r} : Idle(q) \/ \E written : Kept(q, written)
  BY <1>1, <1>2, <1>3, UpsertInv
<1> HIDE DEF s
<1>5. used \in [Sessions -> Nat] /\ leftover \subseteq Sessions
  BY <1>1, SameType
<1>6. TypeOK'
  <2>1. used' \in [Sessions -> Nat] /\ leftover' \subseteq Sessions
    BY <1>1, <1>2, <1>5
  <2>2. QED  BY <1>1, <1>4, <2>1, SameType, NextType
<1>7. UsedIsSpent'
  <2> SUFFICES ASSUME NEW y \in Sessions \ leftover', used'[y] # 0
               PROVE  used'[y] = 1 /\ (Forgetting(y)' \/ Spent(y)')
    BY DEF UsedIsSpent
  <2>1. y \notin leftover /\ (used[y] # 0 => used[y] = 1 /\ (Forgetting(y) \/ Spent(y)))
    BY <1>1 DEF IInv, UsedIsSpent
  <2>2. CASE y = s
    <3>1. ~Shared(r)
      BY <1>1, <2>2
    <3>2. ~Forgetting(s)
      BY <1>1, <3>1 DEF Shared, Forgetting, IsOp, s
    <3>3. ~Spent(s)
      BY <1>1, <3>1 DEF Shared, Spent, s
    <3>4. used[s] = 0
      BY <2>1, <2>2, <3>2, <3>3
    <3>5. QED  BY <1>1, <1>2, <1>3, <1>4, <1>5, <2>2, <3>4 DEF Forgetting
  <2>3. CASE y # s
    <3>1. used'[y] = used[y]
      BY <1>1, <1>5, <2>3
    <3>2. CASE Forgetting(y)
      <4>1. PICK q \in Requests : request[q].op = "forget" /\ request[q].session = y
        BY <3>2 DEF Forgetting
      <4>2. request'[q].op = "forget" /\ request'[q].session = y
        BY <1>1, <1>4, <4>1 DEF Idle, Kept
      <4>3. QED  BY <2>1, <3>1, <4>2 DEF Forgetting
    <3>3. CASE Spent(y)
      <4>1. ASSUME NEW q \in Requests, request'[q].op \in {"complete", "choose"}, request'[q].session = y
            PROVE  ~request'[q].alone
        BY <1>3, <1>4, <3>3, <4>1 DEF Idle, NoRequest, Kept, Spent
      <4>2. QED  BY <1>1, <2>1, <3>1, <3>3, <4>1 DEF Spent
    <3>4. QED  BY <2>1, <3>1, <3>2, <3>3
  <2>4. QED  BY <2>2, <2>3
<1>8. QED  BY <1>4, <1>6, <1>7 DEF IInv

--------------------------------------------------------------------------------
\* The steps that change no connection.
LEMMA RowsKept ==
  ASSUME IInv, UnchangedRows,
         \A q \in Requests : request'[q] = NoRequest \/ \E written : Kept(q, written)
  PROVE  Loaded' /\ StatusAgrees'
<1>1. row' = row /\ refused' = refused /\ loose' = loose
  BY DEF UnchangedRows
<1>2. Loaded'
  BY <1>1 DEF IInv, Loaded, Kept, NoRequest, RowOps, SessionOps
<1>3. StatusAgrees'
  BY <1>1 DEF IInv, StatusAgrees, Exists
<1>4. QED  BY <1>2, <1>3

LEMMA CopiesType ==
  ASSUME TypeOK, NEW s \in Sessions, NEW payload \in Payloads,
         \/ oauth' = [oauth EXCEPT ![s].redis = payload]
         \/ oauth' = [oauth EXCEPT ![s].memory = payload]
         \/ payload = "none" /\ oauth' = [oauth EXCEPT ![s] = Deleted(@)]
  PROVE  /\ oauth' \in [Sessions -> [redis : Payloads, memory : Payloads]]
         /\ \A y \in Sessions \ {s} : oauth'[y] = oauth[y]
         /\ payload = "none" => /\ oauth'[s].redis \in {oauth[s].redis, "none"}
                                /\ oauth'[s].memory \in {oauth[s].memory, "none"}
<1>1. oauth \in [Sessions -> [redis : Payloads, memory : Payloads]]
  BY SameType
<1>2. CASE oauth' = [oauth EXCEPT ![s].redis = payload]
  BY <1>1, <1>2
<1>3. CASE oauth' = [oauth EXCEPT ![s].memory = payload]
  BY <1>1, <1>3
<1>4. CASE payload = "none" /\ oauth' = [oauth EXCEPT ![s] = Deleted(@)]
  BY <1>1, <1>4 DEF Deleted
<1>5. QED  BY <1>2, <1>3, <1>4

LEMMA StoreStepInv ==
  ASSUME IInv,
         \/ \E s \in Sessions : StartOauth(s) \/ SessionExpires(s)
         \/ \E r \in Requests : CommitComplete(r) \/ RequestFails(r)
  PROVE  IInv'
<1>1. TypeOK /\ NoRequest.op = "none"
  BY DEF IInv, NoRequest
<1>2. CASE \E s \in Sessions : StartOauth(s)
  <2>1. PICK s \in Sessions : StartOauth(s)
    BY <1>2
  <2>2. /\ Saved(s, "started") /\ used[s] = 0 /\ UnchangedRows /\ served' = served + 1
        /\ request' = request /\ used' = used /\ leftover' = leftover
        /\ row' = row /\ refused' = refused /\ loose' = loose
    BY <2>1 DEF StartOauth, UnchangedRows
  <2>3. /\ oauth' \in [Sessions -> [redis : Payloads, memory : Payloads]]
        /\ \A y \in Sessions \ {s} : oauth'[y] = oauth[y]
    BY <1>1, <2>2, CopiesType DEF Saved, Payloads
  <2>4. \A q \in Requests : Kept(q, {})
    BY <2>2 DEF Kept
  <2>5. TypeOK'
    BY <1>1, <2>2, <2>3, SameType, NextType
  <2>6. UsedIsSpent'
    BY <2>2, <2>3, <2>4, SpentKept DEF Spent
  <2>7. QED  BY <2>2, <2>4, <2>5, <2>6, RowsKept DEF IInv
<1>3. CASE \E s \in Sessions : SessionExpires(s)
  <2>1. PICK s \in Sessions : SessionExpires(s)
    BY <1>3
  <2>2. /\ \/ oauth' = [oauth EXCEPT ![s].redis = "none"]
           \/ oauth' = [oauth EXCEPT ![s].memory = "none"]
        /\ UnchangedRows /\ served' = served
        /\ request' = request /\ used' = used /\ leftover' = leftover
        /\ row' = row /\ refused' = refused /\ loose' = loose
    <3>1. PICK copy \in {"redis", "memory"} : oauth' = [oauth EXCEPT ![s][copy] = "none"]
      BY <2>1 DEF SessionExpires
    <3>2. QED  BY <2>1, <3>1 DEF SessionExpires, UnchangedRows
  <2>3. /\ oauth' \in [Sessions -> [redis : Payloads, memory : Payloads]]
        /\ \A y \in Sessions \ {s} : oauth'[y] = oauth[y]
        /\ oauth'[s].redis \in {oauth[s].redis, "none"} /\ oauth'[s].memory \in {oauth[s].memory, "none"}
    BY <1>1, <2>2, CopiesType DEF Payloads
  <2>4. \A q \in Requests : Kept(q, {})
    BY <2>2 DEF Kept
  <2>5. TypeOK'
    BY <1>1, <2>2, <2>3, SameType, NextType
  <2>6. UsedIsSpent'
    BY <2>2, <2>3, <2>4, SpentKept DEF Spent
  <2>7. QED  BY <2>2, <2>4, <2>5, <2>6, RowsKept DEF IInv
<1>4. CASE \E r \in Requests : CommitComplete(r)
  <2>1. PICK r \in Requests : CommitComplete(r)
    BY <1>4
  <2> DEFINE s == request[r].session
  <2>2. /\ request[r].op = "complete" /\ s \in Sessions
        /\ Saved(s, "pages") /\ UnchangedRows /\ served' = served /\ used' = used
        /\ leftover' = (IF request[r].alone THEN leftover ELSE leftover \cup {s})
        /\ request' = Finished(r, {})
        /\ row' = row /\ refused' = refused /\ loose' = loose
    BY <2>1 DEF CommitComplete, UnchangedRows, IsOp, IInv, Loaded, SessionOps
  <2>3. /\ oauth' \in [Sessions -> [redis : Payloads, memory : Payloads]]
        /\ \A y \in Sessions \ {s} : oauth'[y] = oauth[y]
    BY <1>1, <2>2, CopiesType DEF Saved, Payloads
  <2>4. /\ request' \in [Requests -> RequestType] /\ request'[r] = NoRequest
        /\ \A q \in Requests \ {r} : Idle(q) \/ Kept(q, {})
    BY <1>1, <2>2, FinishedKeeps, Nothing
  <2>5. TypeOK'
    BY <1>1, <2>2, <2>3, <2>4, SameType, NextType
  <2>6. \A y \in Sessions \ leftover' : Spent(y) => y # s
    BY <2>2 DEF Spent
  <2>7. UsedIsSpent'
    BY <1>1, <2>2, <2>3, <2>4, <2>6, SpentKept DEF Spent, Idle
  <2>8. QED  BY <2>2, <2>4, <2>5, <2>7, RowsKept DEF IInv, Idle
<1>5. CASE \E r \in Requests : RequestFails(r)
  <2>1. PICK r \in Requests : RequestFails(r)
    BY <1>5
  <2>2. /\ UnchangedRows /\ oauth' = oauth /\ served' = served /\ used' = used
        /\ leftover' = IF request[r].op = "forget" THEN leftover \cup {request[r].session} ELSE leftover
        /\ request' = [request EXCEPT ![r] = NoRequest]
        /\ row' = row /\ refused' = refused /\ loose' = loose
    BY <2>1 DEF RequestFails, UnchangedRows, IsOp
  <2>3. /\ request' \in [Requests -> RequestType] /\ request'[r] = NoRequest
        /\ \A q \in Requests \ {r} : Kept(q, {})
    BY <1>1, <2>2, SameType, Nothing DEF Kept
  <2>4. TypeOK'
    <3>1. request[r].op = "forget" => request[r].session \in Sessions
      BY DEF IInv, Loaded, SessionOps
    <3>2. leftover' \subseteq Sessions
      BY <1>1, <2>2, <3>1, SameType
    <3>3. QED  BY <1>1, <2>2, <2>3, <3>2, SameType, NextType
  <2>5. UsedIsSpent'
    BY <1>1, <2>2, <2>3, SpentKept DEF Spent
  <2>6. QED  BY <2>2, <2>3, <2>4, <2>5, RowsKept DEF IInv
<1>6. QED  BY <1>2, <1>3, <1>4, <1>5

LEMMA ForgetInv ==
  ASSUME IInv, NEW r \in Requests, ForgetSession(r)
  PROVE  IInv'
<1> DEFINE s == request[r].session
<1>1. /\ TypeOK /\ request[r].op = "forget" /\ s \in Sessions
      /\ request' = Finished(r, {s}) /\ served' = served /\ used' = used /\ UnchangedRows
      /\ row' = row /\ refused' = refused /\ loose' = loose
      /\ \/ oauth' = [oauth EXCEPT ![s] = Deleted(@)] /\ leftover' = leftover
         \/ oauth' = [oauth EXCEPT ![s].memory = "none"] /\ leftover' = leftover \cup {s}
  BY DEF ForgetSession, IInv, Loaded, SessionOps, IsOp, UnchangedRows
<1>2. /\ request' \in [Requests -> RequestType] /\ request'[r] = NoRequest
      /\ \A q \in Requests \ {r} : Idle(q) \/ Kept(q, {s})
  BY <1>1, FinishedKeeps, Nothing
<1>s. s = request[r].session
  OBVIOUS
<1> HIDE DEF s
<1>3. /\ oauth' \in [Sessions -> [redis : Payloads, memory : Payloads]]
      /\ \A y \in Sessions \ {s} : oauth'[y] = oauth[y]
      /\ oauth'[s].redis \in {oauth[s].redis, "none"} /\ oauth'[s].memory \in {oauth[s].memory, "none"}
  BY <1>1, CopiesType DEF Payloads
<1>4. Loaded' /\ StatusAgrees'
  BY <1>1, <1>2, RowsKept DEF Idle
<1>5. TypeOK'
  <2>1. leftover' \subseteq Sessions
    BY <1>1, SameType
  <2>2. QED  BY <1>1, <1>2, <1>3, <2>1, SameType, NextType
<1>6. UsedIsSpent'
  <2>1. CASE leftover' = leftover \cup {s}
    <3>1. ASSUME NEW q \in Requests
          PROVE  \/ \E written : Kept(q, written)
                 \/ /\ request'[q].op \notin {"complete", "choose"}
                    /\ request[q].op = "forget" => request[q].session \in leftover'
      BY <1>2, <1>s, <2>1 DEF Idle, NoRequest
    <3>2. QED  BY <1>1, <1>3, <2>1, <3>1, SpentKept DEF Spent
  <2>2. CASE oauth' = [oauth EXCEPT ![s] = Deleted(@)] /\ leftover' = leftover
    <3> SUFFICES ASSUME NEW y \in Sessions \ leftover, used[y] # 0
                 PROVE  used[y] = 1 /\ (Forgetting(y)' \/ Spent(y)')
      BY <1>1, <2>2 DEF UsedIsSpent
    <3>1. used[y] = 1 /\ (Forgetting(y) \/ Spent(y))
      BY DEF IInv, UsedIsSpent
    <3>2. CASE y = s
      <4>1. oauth'[s].redis = "none" /\ oauth'[s].memory = "none"
        BY <1>1, <2>2, SameType DEF Deleted
      <4>2. ASSUME NEW q \in Requests, request'[q].op \in {"complete", "choose"}, request'[q].session = s
            PROVE  ~request'[q].alone
        <5>1. q # r /\ Kept(q, {s})
          <6>1. NoRequest.op = "none"
            BY DEF NoRequest
          <6>2. request'[q] # NoRequest
            BY <4>2, <6>1
          <6>3. QED  BY <1>2, <6>2 DEF Idle
        <5>2. request[q].session = s
          BY <4>2, <5>1 DEF Kept
        <5>3. s \in {request[q].row, request[q].page, request[q].session} \cap {s}
          BY <5>2
        <5>4. QED  BY <5>1, <5>3 DEF Kept
      <4>3. QED  BY <3>1, <3>2, <4>1, <4>2 DEF Spent
    <3>3. CASE y # s /\ Forgetting(y)
      <4>1. PICK q \in Requests : request[q].op = "forget" /\ request[q].session = y
        BY <3>3 DEF Forgetting
      <4>2. request'[q].op = "forget" /\ request'[q].session = y
        BY <1>2, <1>s, <3>3, <4>1 DEF Idle, Kept
      <4>3. QED  BY <3>1, <4>2 DEF Forgetting
    <3>4. CASE y # s /\ Spent(y)
      <4>1. ASSUME NEW q \in Requests, request'[q].op \in {"complete", "choose"}, request'[q].session = y
            PROVE  ~request'[q].alone
        BY <1>2, <3>4, <4>1 DEF Idle, NoRequest, Kept, Spent
      <4>2. QED  BY <1>3, <3>1, <3>4, <4>1 DEF Spent
    <3>5. QED  BY <3>1, <3>2, <3>3, <3>4
  <2>3. QED  BY <1>1, <2>1, <2>2
<1>7. QED  BY <1>4, <1>5, <1>6 DEF IInv

LEMMA StutterInv ==
  ASSUME IInv, UNCHANGED vars
  PROVE  IInv'
BY DEF IInv, vars, TypeOK, Loaded, StatusAgrees, Exists, UsedIsSpent, Forgetting, Spent

LEMMA InductiveInv == Spec => []IInv
<1>1. ASSUME IInv, [Next]_vars PROVE IInv'
  <2>1. CASE UNCHANGED vars
    BY <1>1, <2>1, StutterInv
  <2>2. CASE CreateConnection
    BY <1>1, <2>2, CreateInv
  <2>3. ASSUME NEW r \in Requests, BeginOperation(r)
        PROVE  IInv'
    BY <1>1, <2>3, BeginsInv
  <2>4. ASSUME NEW r \in Requests, CommitOperation(r)
        PROVE  IInv'
    BY <1>1, <2>4, RowOpsInv, DeleteInv, ConnectInv, ChooseInv, ForgetInv, StoreStepInv
       DEF CommitOperation
  <2>5. CASE (\E r \in Requests : RequestFails(r)) \/ \E s \in Sessions : StartOauth(s) \/ SessionExpires(s)
    BY <1>1, <2>5, StoreStepInv
  <2>6. QED  BY <1>1, <2>1, <2>2, <2>3, <2>4, <2>5 DEF Next
<1>2. QED  BY <1>1, InitInv, PTL DEF Spec

\* Every variable keeps its type.
THEOREM TypeCorrect == Spec => []TypeOK
BY InductiveInv, PTL DEF IInv

\* A connection never shows a status its row does not bear out, whatever operations
\* overlap (update_connection, _sync_status, handle_api_error, _upsert_connection).
THEOREM StatusAgreesAlways == Spec => []StatusAgrees
BY InductiveInv, PTL DEF IInv

\* An OAuth session that no two requests shared, and that was deleted, connected one
\* row (connect_page_from_oauth and the session store's get, save and delete).
THEOREM SessionUsedOnceAlways == Spec => []SessionUsedOnce
<1>1. IInv => SessionUsedOnce
  <2> SUFFICES ASSUME IInv, NEW s \in Sessions \ leftover
               PROVE  used[s] <= 1
    BY DEF SessionUsedOnce
  <2>1. used[s] # 0 => used[s] = 1
    BY DEF IInv, UsedIsSpent
  <2>2. QED  BY <2>1
<1>2. QED  BY <1>1, InductiveInv, PTL
================================================================================
