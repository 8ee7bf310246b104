--------------------------- MODULE TokenLedger_proofs ---------------------------
(***************************************************************************)
(* Proofs about TokenLedger, for every number of credits and sessions, and *)
(* about Billing, which decides when a wallet gets its monthly credit, for *)
(* any number of accounts, requests and tasks.                             *)
(***************************************************************************)
EXTENDS TokenLedger, Billing, FiniteSetTheorems, TLAPS

(***************************************************************************)
(* Type correctness, one lemma per group of actions.                       *)
(***************************************************************************)
LEMMA IdleType == Idle \in Session
  BY DEF Idle, Session, NoRow, Row, Nothing, Kinds

LEMMA LoadedType ==
  ASSUME TypeOK, NEW pc \in {"debit", "credit", "expire"}
  PROVE  Loaded(pc) \in Session
  BY IdleType DEF TypeOK, Loaded, Idle, Session, Nothing

LEMMA InitType == Init => TypeOK
  BY LedgerAssumption, IdleType DEF Init, TypeOK, NoRow, Row, Nothing

\* What a commit may add to the credits and the wallet that were crossed.
LEMMA CrossedType ==
  ASSUME TypeOK, NEW s \in Sessions, NEW a, NEW b,
         NEW written \in {Taken(s), sess[s].todo, {}}
  PROVE  crossed \cup Stale(s, written) \cup StaleWallet(a, b) \subseteq Credits \cup {Wallet}
<1>1. written \subseteq Credits
  BY DEF TypeOK, Session, Taken
<1>2. QED  BY <1>1 DEF TypeOK, Stale, StaleWallet

LEMMA SyncBalanceType ==
  ASSUME TypeOK, NEW s \in Sessions, SyncBalance(s)
  PROVE  balance' \in Nat
  BY LedgerAssumption DEF TypeOK, SyncBalance

(***************************************************************************)
(* The inductive invariant.  AllocOK says how far a session's debit loop   *)
(* has come: it has taken only from selected credits, in the query's       *)
(* order, and only a credit it stopped at is partly used.                  *)
(***************************************************************************)
AllocOK(q) ==
  /\ IF q.pc = "loop" THEN q.todo \subseteq q.cand ELSE q.cand = {}
  /\ \A c \in q.cand : q.snap[c].remaining > 0 /\ ~q.snap[c].expired
  /\ \A c \in q.todo : q.snap[c].remaining > 0 /\ q.take[c] = 0
  /\ \A c \in Credits : q.take[c] <= q.snap[c].remaining
  /\ \A c \in Credits : q.take[c] > 0 => c \in q.cand /\ c \notin q.todo
  /\ \A c \in q.cand \ q.todo :
        /\ \A d \in q.todo : Before(q.snap, c, d)
        /\ q.take[c] = q.snap[c].remaining \/ q.need = 0
        /\ q.take[c] < q.snap[c].remaining =>
              \A d \in q.cand \ q.todo : d = c \/ Before(q.snap, d, c)

SessionsOK == \A s \in Sessions : AllocOK(sess[s])

\* A row with tokens exists, and so does a row a snapshot showed with tokens;
\* what the snapshot showed plus what was recorded since covers the credit.
Held(c) == spent[c] + lapsed[c] + orphaned[c]
RowsOK == \A c \in Credits : rows[c].remaining > 0 => rows[c].kind # "none"
SnapshotsOK ==
  \A s \in Sessions : \A c \in Credits :
    sess[s].snap[c].remaining > 0 =>
      /\ rows[c].kind # "none"
      /\ rows[c].amount <= sess[s].snap[c].remaining + Held(c)

IInv == TypeOK /\ SessionsOK /\ RowsOK /\ SnapshotsOK /\ NoTokenLost

LEMMA WriteRemainingType ==
  ASSUME TypeOK, SessionsOK, NEW s \in Sessions, WriteRemaining(s)
  PROVE  rows' \in [Credits -> Row]
<1> DEFINE left(c) == sess[s].snap[c].remaining - sess[s].take[c]
<1>1. sess[s].snap \in [Credits -> Row] /\ sess[s].take \in [Credits -> Nat]
  BY DEF TypeOK, Session
<1>2. \A c \in Credits : left(c) \in Nat
  BY <1>1 DEF SessionsOK, AllocOK, Row
<1>3. \A c \in Credits : rows[c] \in Row /\ [rows[c] EXCEPT !.remaining = left(c)] \in Row
  BY <1>2 DEF TypeOK, Row
<1>4. rows' = [c \in Credits |-> IF sess[s].take[c] > 0
                                 THEN [rows[c] EXCEPT !.remaining = left(c)]
                                 ELSE rows[c]]
  BY DEF WriteRemaining
<1>5. QED  BY <1>3, <1>4

LEMMA AllocatedFields ==
  ASSUME TypeOK, NEW s \in Sessions, NEW c \in sess[s].todo
  PROVE  LET n == Min2(sess[s].snap[c].remaining, sess[s].need)
             q == Allocated(sess[s], c)
         IN  /\ n \in Nat /\ n <= sess[s].need /\ n <= sess[s].snap[c].remaining
             /\ n = sess[s].need \/ n = sess[s].snap[c].remaining
             /\ q \in Session
             /\ q.pc = sess[s].pc /\ q.cand = sess[s].cand /\ q.snap = sess[s].snap
             /\ q.need = sess[s].need - n
             /\ q.todo = sess[s].todo \ {c}
             /\ q.take = [sess[s].take EXCEPT ![c] = n]
<1> DEFINE n == Min2(sess[s].snap[c].remaining, sess[s].need)
<1>1. sess[s] \in Session /\ c \in Credits
  BY DEF TypeOK, Session
<1>2. sess[s].snap[c].remaining \in Nat /\ sess[s].need \in Nat
  BY <1>1 DEF Session, Row
<1>3. /\ n \in Nat /\ n <= sess[s].need /\ n <= sess[s].snap[c].remaining
      /\ n = sess[s].need \/ n = sess[s].snap[c].remaining
  BY <1>2 DEF Min2
<1>4. Allocated(sess[s], c) =
        [sess[s] EXCEPT !.need = sess[s].need - n,
                        !.todo = sess[s].todo \ {c},
                        !.take = [sess[s].take EXCEPT ![c] = n]]
  BY <1>1 DEF Allocated, Session
<1> HIDE DEF n
<1> DEFINE take == [sess[s].take EXCEPT ![c] = n]
           q == Allocated(sess[s], c)
<1>5. take \in [Credits -> Nat] /\ sess[s].todo \ {c} \in SUBSET Credits
      /\ sess[s].need - n \in Nat
  BY <1>1, <1>2, <1>3 DEF Session
<1> HIDE DEF take
<1>6. q = [sess[s] EXCEPT !.need = sess[s].need - n, !.todo = sess[s].todo \ {c}, !.take = take]
  BY <1>4 DEF take
<1> HIDE DEF q
<1>7. /\ q \in Session
      /\ q.pc = sess[s].pc /\ q.cand = sess[s].cand /\ q.snap = sess[s].snap
      /\ q.need = sess[s].need - n /\ q.todo = sess[s].todo \ {c} /\ q.take = take
  BY <1>1, <1>5, <1>6 DEF Session
<1>8. QED  BY <1>3, <1>7 DEF n, q, take

LEMMA StepType ==
  ASSUME TypeOK, SessionsOK, [Next]_vars
  PROVE  TypeOK'
<1>1. CASE Tick
  BY <1>1, LedgerAssumption DEF TypeOK, Tick, db, history
<1>2. ASSUME NEW s \in Sessions, BeginDebit(s)
      PROVE  TypeOK'
  <2> DEFINE total == Available(rows, clock)
  <2>0. PICK ask \in Requests :
          /\ total \in 1..MaxColumn
          /\ sess' = [sess EXCEPT ![s] = [Loaded("debit") EXCEPT !.ask = Min2(ask, total),
                                                                 !.need = Min2(ask, total)]]
    BY <1>2 DEF BeginDebit
  <2> DEFINE amount == Min2(ask, total)
  <2>1. amount \in Nat
    BY <2>0, LedgerAssumption DEF Min2
  <2> HIDE DEF amount
  <2>2. [Loaded("debit") EXCEPT !.ask = amount, !.need = amount] \in Session
    BY <2>1, LoadedType DEF Session
  <2>3. sess' = [sess EXCEPT ![s] = [Loaded("debit") EXCEPT !.ask = amount, !.need = amount]]
    BY <2>0 DEF amount
  <2>4. QED  BY <1>2, <2>2, <2>3 DEF TypeOK, BeginDebit, db, history
<1>3. ASSUME NEW s \in Sessions, LoadCredits(s)
      PROVE  TypeOK'
  <2> DEFINE found == Spendable(sess[s].snap, clock)
  <2>1. found \in SUBSET Credits
    BY DEF Spendable
  <2>2. sess' = [sess EXCEPT ![s] = [sess[s] EXCEPT !.pc = "loop", !.cand = found,
                                                    !.todo = found]]
    BY <1>3 DEF LoadCredits, TypeOK
  <2> HIDE DEF found
  <2>3. sess[s] \in Session
    BY DEF TypeOK
  <2>4. [sess[s] EXCEPT !.pc = "loop", !.cand = found, !.todo = found] \in Session
    BY <2>1, <2>3 DEF Session
  <2>5. sess' \in [Sessions -> Session]
    BY <2>2, <2>4 DEF TypeOK
  <2>6. UNCHANGED <<db, clock, history>>
    BY <1>3 DEF LoadCredits
  <2>7. QED  BY <2>5, <2>6 DEF TypeOK, db, history
<1>4. ASSUME NEW s \in Sessions, Consume(s)
      PROVE  TypeOK'
  <2>1. PICK c \in sess[s].todo : sess' = [sess EXCEPT ![s] = Allocated(sess[s], c)]
    BY <1>4 DEF Consume
  <2>2. Allocated(sess[s], c) \in Session
    BY AllocatedFields
  <2>3. QED  BY <1>4, <2>1, <2>2 DEF TypeOK, Consume, db, history
<1>5. ASSUME NEW s \in Sessions, CommitDebit(s)
      PROVE  TypeOK'
  <2>1. rows' \in [Credits -> Row]
    BY <1>5, WriteRemainingType DEF CommitDebit
  <2>2. balance' \in Nat
    BY <1>5, SyncBalanceType DEF CommitDebit
  <2>3. spent' \in [Credits -> Nat] /\ debited' \in Nat
    BY <1>5 DEF CommitDebit, TypeOK, Session
  <2>4. crossed' \subseteq Credits \cup {Wallet}
    BY <1>5, CrossedType DEF CommitDebit
  <2>5. QED  BY <1>5, <2>1, <2>2, <2>3, <2>4, IdleType DEF TypeOK, CommitDebit
<1>6. ASSUME NEW s \in Sessions, FailDebit(s)
      PROVE  TypeOK'
  <2>1. rows' \in [Credits -> Row]
    BY <1>6, WriteRemainingType DEF FailDebit, TypeOK
  <2>2. orphaned' \in [Credits -> Nat]
    BY <1>6 DEF FailDebit, TypeOK, Session
  <2>3. crossed' \subseteq Credits \cup {Wallet}
    <3>1. crossed' = crossed \/ crossed' = crossed \cup Stale(s, Taken(s))
      BY <1>6 DEF FailDebit
    <3>2. Stale(s, Taken(s)) \subseteq Credits
      BY DEF Stale, Taken
    <3>3. QED  BY <3>1, <3>2 DEF TypeOK
  <2>4. QED  BY <1>6, <2>1, <2>2, <2>3, IdleType DEF TypeOK, FailDebit
<1>7. ASSUME NEW s \in Sessions, BeginCredit(s)
      PROVE  TypeOK'
  <2>1. PICK kind \in Kinds, n \in Nat :
          sess' = [sess EXCEPT ![s] = [Loaded("credit") EXCEPT !.ask = n, !.kind = kind]]
    BY <1>7, LedgerAssumption DEF BeginCredit
  <2>2. [Loaded("credit") EXCEPT !.ask = n, !.kind = kind] \in Session
    BY LoadedType DEF Session
  <2>3. QED  BY <1>7, <2>1, <2>2 DEF TypeOK, BeginCredit, db, history
<1>8. ASSUME NEW s \in Sessions, CommitCredit(s)
      PROVE  TypeOK'
  <2>1. balance' \in Nat
    BY <1>8, SyncBalanceType DEF CommitCredit
  <2>2. rows' \in [Credits -> Row] /\ credited' \in Nat
    BY <1>8, LedgerAssumption DEF CommitCredit, TypeOK, Session, Row
  <2>3. crossed' \subseteq Credits \cup {Wallet}
    BY <1>8 DEF CommitCredit, StaleWallet, TypeOK
  <2>4. QED  BY <1>8, <2>1, <2>2, <2>3, IdleType DEF TypeOK, CommitCredit
<1>9. ASSUME NEW s \in Sessions, BeginExpire(s)
      PROVE  TypeOK'
  <2>1. [Loaded("expire") EXCEPT !.todo = Overdue(rows, clock)] \in Session
    BY LoadedType DEF Session, Overdue
  <2>2. QED  BY <1>9, <2>1 DEF TypeOK, BeginExpire, db, history
<1>10. ASSUME NEW s \in Sessions, CommitExpire(s)
       PROVE  TypeOK'
  <2>1. balance' \in Nat
    BY <1>10, SyncBalanceType DEF CommitExpire
  <2>2. lapsed' \in [Credits -> Nat] /\ debited' \in Nat
    BY <1>10, LedgerAssumption DEF CommitExpire, TypeOK, Session, Row
  <2>3. rows' \in [Credits -> Row]
    <3>1. ZeroOverdue(s)
      BY <1>10 DEF CommitExpire
    <3>2. \A c \in Credits : [rows[c] EXCEPT !.remaining = 0, !.expired = TRUE] \in Row
      <4>1. \A c \in Credits : rows[c] \in Row
        BY DEF TypeOK
      <4>2. QED  BY <4>1 DEF Row
    <3>3. QED  BY <3>1, <3>2 DEF ZeroOverdue, TypeOK
  <2>4. sess' \in [Sessions -> Session]
    BY <1>10, IdleType DEF TypeOK, CommitExpire
  <2>5. UNCHANGED <<credited, clock, spent, orphaned>>
    BY <1>10 DEF CommitExpire
  <2>6. crossed' \subseteq Credits \cup {Wallet}
    BY <1>10, CrossedType DEF CommitExpire
  <2>7. QED  BY <2>1, <2>2, <2>3, <2>4, <2>5, <2>6 DEF TypeOK
<1>11. ASSUME NEW s \in Sessions, Rollback(s)
       PROVE  TypeOK'
  BY <1>11, IdleType DEF TypeOK, Rollback, db, history
<1>12. CASE UNCHANGED vars
  BY <1>12 DEF TypeOK, vars
<1>13. QED
  BY <1>1, <1>2, <1>3, <1>4, <1>5, <1>6, <1>7, <1>8, <1>9, <1>10, <1>11, <1>12
     DEF Next, Step

(***************************************************************************)
(* The loop invariant.                                                     *)
(***************************************************************************)
LEMMA AllocIdle == AllocOK(Idle)
  BY DEF AllocOK, Idle, NoRow, Nothing

\* A session that has only loaded its snapshot, with or without rows to visit.
LEMMA AllocFresh ==
  ASSUME NEW q \in Session, q.pc # "loop", q.cand = {}, q.take = Nothing,
         \A c \in q.todo : q.snap[c].remaining > 0
  PROVE  AllocOK(q)
<1>1. \A c \in Credits : q.take[c] = 0 /\ q.snap[c].remaining \in Nat
  BY DEF Nothing, Session, Row
<1>2. q.todo \subseteq Credits
  BY DEF Session
<1>3. QED  BY <1>1, <1>2 DEF AllocOK

LEMMA AllocStep ==
  ASSUME TypeOK, SessionsOK, [Next]_vars
  PROVE  SessionsOK'
<1> USE DEF SessionsOK
<1>1. CASE Tick
  BY <1>1 DEF Tick
<1>2. ASSUME NEW s \in Sessions, BeginDebit(s)
      PROVE  SessionsOK'
  <2>1. PICK amount :
          sess' = [sess EXCEPT ![s] = [Loaded("debit") EXCEPT !.ask = amount, !.need = amount]]
    BY <1>2 DEF BeginDebit
  <2>2. TypeOK'
    BY StepType, <1>2 DEF Next, Step
  <2>3. sess'[s] = [Loaded("debit") EXCEPT !.ask = amount, !.need = amount]
    BY <2>1 DEF TypeOK
  <2>4. /\ sess'[s].pc = "debit" /\ sess'[s].cand = {} /\ sess'[s].todo = {}
        /\ sess'[s].take = Nothing
    BY <2>3 DEF Loaded, Idle
  <2>5. AllocOK(sess'[s])
    BY <2>2, <2>4, AllocFresh DEF TypeOK
  <2>6. QED  BY <2>1, <2>5 DEF TypeOK
<1>3. ASSUME NEW s \in Sessions, LoadCredits(s)
      PROVE  SessionsOK'
  <2> DEFINE found == Spendable(sess[s].snap, clock)
  <2>1. /\ sess[s].pc = "debit"
        /\ sess' = [sess EXCEPT ![s] = [sess[s] EXCEPT !.pc = "loop", !.cand = found, !.todo = found]]
    BY <1>3 DEF LoadCredits, TypeOK
  <2>2. \A c \in found : c \in Credits /\ sess[s].snap[c].remaining > 0 /\ ~sess[s].snap[c].expired
    BY DEF Spendable, Unexpired
  <2> HIDE DEF found
  <2>3. /\ sess'[s].pc = "loop" /\ sess'[s].cand = found /\ sess'[s].todo = found
        /\ sess'[s].take = sess[s].take /\ sess'[s].snap = sess[s].snap
        /\ sess'[s].need = sess[s].need
    BY <2>1 DEF TypeOK, Session
  <2>4. \A c \in Credits : sess[s].take[c] = 0
    <3>1. sess[s].take \in [Credits -> Nat] /\ sess[s].pc # "loop" /\ AllocOK(sess[s])
      BY <2>1 DEF TypeOK, Session
    <3>2. QED  BY <3>1 DEF AllocOK
  <2>5. AllocOK(sess'[s])
    BY <2>2, <2>3, <2>4 DEF AllocOK
  <2>6. QED  BY <2>1, <2>5 DEF TypeOK
<1>4. ASSUME NEW s \in Sessions, Consume(s)
      PROVE  SessionsOK'
  <2>1. PICK e \in sess[s].todo :
          /\ \A d \in sess[s].todo \ {e} : Before(sess[s].snap, e, d)
          /\ sess' = [sess EXCEPT ![s] = Allocated(sess[s], e)]
    BY <1>4 DEF Consume
  <2> DEFINE n == Min2(sess[s].snap[e].remaining, sess[s].need)
             q == Allocated(sess[s], e)
  <2>3. /\ n \in Nat /\ n <= sess[s].need /\ n <= sess[s].snap[e].remaining
        /\ n = sess[s].need \/ n = sess[s].snap[e].remaining
        /\ q.pc = sess[s].pc /\ q.cand = sess[s].cand /\ q.snap = sess[s].snap
        /\ q.need = sess[s].need - n /\ q.todo = sess[s].todo \ {e}
        /\ q.take = [sess[s].take EXCEPT ![e] = n]
    BY <2>1, AllocatedFields
  <2> HIDE DEF n
  <2>4. sess[s] \in Session /\ AllocOK(sess[s]) /\ sess[s].need > 0
    BY <1>4 DEF TypeOK, Consume
  <2>5. /\ sess'[s].pc = sess[s].pc /\ sess'[s].cand = sess[s].cand
        /\ sess'[s].snap = sess[s].snap /\ sess'[s].need = sess[s].need - n
        /\ sess'[s].todo = sess[s].todo \ {e}
        /\ sess'[s].take = [sess[s].take EXCEPT ![e] = n]
    BY <2>1, <2>3 DEF TypeOK
  <2>6. e \in Credits /\ sess[s].pc = "loop" /\ sess[s].todo \subseteq Credits
    BY <1>4, <2>4 DEF Consume, Session
  <2>7. sess'[s].take[e] = n /\ \A c \in Credits \ {e} : sess'[s].take[c] = sess[s].take[c]
    BY <2>4, <2>5, <2>6 DEF Session
  <2>8. e \in sess[s].cand /\ sess[s].snap[e].remaining > 0
    BY <2>4, <2>6 DEF AllocOK
  <2>9. \A d \in sess[s].cand \ sess[s].todo : d # e /\ sess[s].take[d] = sess[s].snap[d].remaining
    <3>1. SUFFICES ASSUME NEW d \in sess[s].cand \ sess[s].todo, sess[s].need = 0 PROVE FALSE
      BY <2>1, <2>4 DEF AllocOK
    <3>2. QED  BY <2>4, <3>1 DEF Session
  <2>10. sess[s].need \in Nat /\ sess[s].snap[e].remaining \in Nat /\ sess[s].cand \subseteq Credits
    BY <2>4, <2>6 DEF Session, Row
  <2>11. /\ \A c \in Credits : sess'[s].take[c] <= sess[s].snap[c].remaining
         /\ \A c \in Credits : sess'[s].take[c] > 0 => c \in sess[s].cand /\ c \notin sess'[s].todo
    BY <2>3, <2>4, <2>5, <2>6, <2>7, <2>8 DEF AllocOK
  <2>12. ASSUME NEW c \in sess[s].cand \ sess'[s].todo
         PROVE  /\ \A d \in sess'[s].todo : Before(sess[s].snap, c, d)
                /\ sess'[s].take[c] = sess[s].snap[c].remaining \/ sess'[s].need = 0
                /\ sess'[s].take[c] < sess[s].snap[c].remaining =>
                     \A d \in sess[s].cand \ sess'[s].todo : d = c \/ Before(sess[s].snap, d, c)
    <3>0. c # e => sess'[s].take[c] = sess[s].snap[c].remaining /\ sess[s].snap[c].remaining \in Nat
      BY <2>4, <2>5, <2>7, <2>9, <2>10, <2>12 DEF Session, Row
    <3>1. CASE c = e
      <4>1. \A d \in sess[s].cand \ sess'[s].todo : d = c \/ Before(sess[s].snap, d, c)
        BY <2>4, <2>5, <3>1 DEF AllocOK
      <4>2. QED  BY <2>1, <2>3, <2>5, <2>7, <2>10, <3>1, <4>1
    <3>2. CASE c # e
      BY <2>4, <2>5, <2>12, <3>0, <3>2 DEF AllocOK
    <3>3. QED  BY <3>1, <3>2
  <2>13. AllocOK(sess'[s])
    BY <2>4, <2>5, <2>6, <2>7, <2>11, <2>12 DEF AllocOK
  <2>14. QED  BY <2>1, <2>13 DEF TypeOK
<1>5. ASSUME NEW s \in Sessions, sess' = [sess EXCEPT ![s] = Idle]
      PROVE  SessionsOK'
  BY <1>5, AllocIdle DEF TypeOK
<1>6. ASSUME NEW s \in Sessions, BeginCredit(s)
      PROVE  SessionsOK'
  <2>1. PICK kind \in Kinds, n \in Amounts :
          sess' = [sess EXCEPT ![s] = [Loaded("credit") EXCEPT !.ask = n, !.kind = kind]]
    BY <1>6 DEF BeginCredit
  <2>2. TypeOK'
    BY StepType, <1>6 DEF Next, Step
  <2>3. sess'[s] = [Loaded("credit") EXCEPT !.ask = n, !.kind = kind]
    BY <2>1 DEF TypeOK
  <2>4. /\ sess'[s].pc = "credit" /\ sess'[s].cand = {} /\ sess'[s].todo = {}
        /\ sess'[s].take = Nothing
    BY <2>3 DEF Loaded, Idle
  <2>5. AllocOK(sess'[s])
    BY <2>2, <2>4, AllocFresh DEF TypeOK
  <2>6. QED  BY <2>1, <2>5 DEF TypeOK
<1>7. ASSUME NEW s \in Sessions, BeginExpire(s)
      PROVE  SessionsOK'
  <2>1. sess' = [sess EXCEPT ![s] = [Loaded("expire") EXCEPT !.todo = Overdue(rows, clock)]]
    BY <1>7 DEF BeginExpire
  <2>2. TypeOK'
    BY StepType, <1>7 DEF Next, Step
  <2>3. sess'[s] = [Loaded("expire") EXCEPT !.todo = Overdue(rows, clock)]
    BY <2>1 DEF TypeOK
  <2>4. /\ sess'[s].pc = "expire" /\ sess'[s].cand = {} /\ sess'[s].snap = rows
        /\ sess'[s].todo = Overdue(rows, clock) /\ sess'[s].take = Nothing
    BY <2>3 DEF Loaded, Idle
  <2>5. AllocOK(sess'[s])
    BY <2>2, <2>4, AllocFresh DEF TypeOK, Overdue
  <2>6. QED  BY <2>1, <2>5 DEF TypeOK
<1>8. CASE UNCHANGED vars
  BY <1>8 DEF vars
<1>9. QED
  BY <1>1, <1>2, <1>3, <1>4, <1>5, <1>6, <1>7, <1>8
     DEF Next, Step, CommitDebit, FailDebit, CommitCredit, CommitExpire, Rollback
(***************************************************************************)
(* The rows, and the snapshots sessions hold of them.                      *)
(***************************************************************************)
LEMMA HeldNat ==
  ASSUME TypeOK, NEW c \in Credits
  PROVE  /\ Held(c) \in Nat
         /\ rows[c].amount \in Nat /\ rows[c].remaining \in Nat
         /\ \A s \in Sessions : sess[s].snap[c].remaining \in Nat /\ sess[s].take[c] \in Nat
  BY DEF TypeOK, Held, Row, Session

\* A step that keeps the rows which exist, loses no history and leaves one
\* session with its old snapshot, the current rows or none keeps SnapshotsOK.
LEMMA SnapshotsStep ==
  ASSUME TypeOK, TypeOK', SnapshotsOK, RowsOK, NoTokenLost,
         NEW s \in Sessions, NEW p, sess' = [sess EXCEPT ![s] = p],
         \A c \in Credits : p.snap[c] = sess[s].snap[c] \/ p.snap[c] = rows[c] \/ p.snap[c] = NoRow,
         \A c \in Credits : rows[c].kind # "none" =>
            rows'[c].kind # "none" /\ rows'[c].amount = rows[c].amount,
         \A c \in Credits : Held(c) <= Held(c)'
  PROVE  SnapshotsOK'
<1>1. ASSUME NEW t \in Sessions, NEW c \in Credits, sess'[t].snap[c].remaining > 0
      PROVE  rows'[c].kind # "none" /\ rows'[c].amount <= sess'[t].snap[c].remaining + Held(c)'
  <2>1. /\ Held(c) \in Nat /\ Held(c)' \in Nat /\ Held(c) <= Held(c)'
        /\ rows[c].amount \in Nat /\ rows[c].remaining \in Nat
        /\ sess'[t].snap[c].remaining \in Nat
    BY HeldNat, TypeOK DEF TypeOK, Held, Row, Session
  <2>2. /\ rows[c].kind # "none"
        /\ rows[c].amount <= sess'[t].snap[c].remaining + Held(c)
    <3>1. CASE t # s \/ sess'[t].snap[c] = sess[t].snap[c]
      BY <1>1, <3>1 DEF SnapshotsOK, TypeOK
    <3>2. CASE t = s /\ sess'[t].snap[c] = rows[c]
      BY <1>1, <3>2 DEF RowsOK, NoTokenLost, TypeOK, Held, Row
    <3>3. CASE t = s /\ sess'[t].snap[c] = NoRow
      BY <1>1, <3>3 DEF NoRow
    <3>4. QED  BY <3>1, <3>2, <3>3 DEF TypeOK
  <2>3. QED  BY <2>1, <2>2
<1>2. QED  BY <1>1 DEF SnapshotsOK

\* In particular a commit, which leaves its session idle.
LEMMA CommitSnapshots ==
  ASSUME TypeOK, TypeOK', SnapshotsOK, RowsOK, NoTokenLost,
         NEW s \in Sessions, sess' = [sess EXCEPT ![s] = Idle],
         \A c \in Credits : rows[c].kind # "none" =>
            rows'[c].kind # "none" /\ rows'[c].amount = rows[c].amount,
         \A c \in Credits : Held(c) <= Held(c)'
  PROVE  SnapshotsOK'
<1>1. \A c \in Credits : Idle.snap[c] = NoRow
  BY DEF Idle
<1> HIDE DEF Idle, Held
<1>2. QED  BY <1>1, SnapshotsStep, ZenonT(60)

\* What WriteRemaining leaves in each row.
LEMMA WrittenRows ==
  ASSUME TypeOK, SessionsOK, SnapshotsOK, RowsOK, NEW s \in Sessions, WriteRemaining(s),
         NEW c \in Credits
  PROVE  /\ rows'[c].kind = rows[c].kind /\ rows'[c].amount = rows[c].amount
         /\ rows'[c].remaining > 0 => rows[c].kind # "none"
         /\ rows[c].amount <= rows[c].remaining + Held(c) =>
              rows'[c].amount <= rows'[c].remaining + Held(c) + sess[s].take[c]
<1>1. rows[c] \in Row
  BY DEF TypeOK
<1>2. CASE sess[s].take[c] > 0
  <2> DEFINE left == sess[s].snap[c].remaining - sess[s].take[c]
  <2>1. rows'[c] = [rows[c] EXCEPT !.remaining = left]
    BY <1>2 DEF WriteRemaining
  <2>2. rows'[c].kind = rows[c].kind /\ rows'[c].amount = rows[c].amount /\ rows'[c].remaining = left
    BY <1>1, <2>1 DEF Row
  <2>3. sess[s].take[c] <= sess[s].snap[c].remaining
    BY DEF SessionsOK, AllocOK
  <2>4. /\ sess[s].take[c] \in Nat /\ sess[s].snap[c].remaining \in Nat /\ Held(c) \in Nat
        /\ rows[c].amount \in Nat
    BY HeldNat
  <2>5. /\ rows[c].kind # "none"
        /\ rows[c].amount <= sess[s].snap[c].remaining + Held(c)
    BY <1>2, <2>3, <2>4 DEF SnapshotsOK
  <2> HIDE DEF Held
  <2>6. QED  BY <2>2, <2>3, <2>4, <2>5
<1>3. CASE ~(sess[s].take[c] > 0)
  <2>1. rows'[c] = rows[c]
    BY <1>3 DEF WriteRemaining
  <2>2. sess[s].take[c] \in Nat /\ Held(c) \in Nat /\ rows[c].amount \in Nat /\ rows[c].remaining \in Nat
    BY HeldNat
  <2>3. QED  BY <2>1, <2>2 DEF RowsOK
<1>4. QED  BY <1>2, <1>3

\* The steps that change neither rows nor history.
LEMMA QuietStep ==
  ASSUME TypeOK, TypeOK', SnapshotsOK, RowsOK, NoTokenLost, UNCHANGED <<rows, history>>,
         NEW s \in Sessions, NEW p, sess' = [sess EXCEPT ![s] = p],
         \/ p.snap = rows
         \/ p.snap = sess[s].snap
         \/ p = Idle
  PROVE  RowsOK' /\ SnapshotsOK' /\ NoTokenLost'
<1>1. RowsOK' /\ NoTokenLost'
  BY DEF RowsOK, NoTokenLost, history
<1>2. \A c \in Credits : Held(c) \in Nat /\ Held(c)' = Held(c)
  BY HeldNat DEF Held, history
<1>3. \A c \in Credits : p.snap[c] = sess[s].snap[c] \/ p.snap[c] = rows[c] \/ p.snap[c] = NoRow
  BY DEF Idle
<1>4. rows' = rows
  BY DEF history
<1> HIDE DEF Held
<1>5. \A c \in Credits : Held(c) <= Held(c)'
  BY <1>2
<1>6. \A c \in Credits : rows[c].kind # "none" =>
        rows'[c].kind # "none" /\ rows'[c].amount = rows[c].amount
  BY <1>4
<1>7. SnapshotsOK'
  BY <1>3, <1>5, <1>6, SnapshotsStep, ZenonT(60)
<1>8. QED  BY <1>1, <1>7

\* The steps that write back what a debit consumed.
LEMMA WriteStep ==
  ASSUME TypeOK, TypeOK', SessionsOK, SnapshotsOK, RowsOK, NoTokenLost,
         NEW s \in Sessions, WriteRemaining(s), sess' = [sess EXCEPT ![s] = Idle],
         \A c \in Credits : Held(c)' = Held(c) + sess[s].take[c]
  PROVE  RowsOK' /\ SnapshotsOK' /\ NoTokenLost'
<1>1. \A c \in Credits : Held(c) \in Nat /\ sess[s].take[c] \in Nat
  BY HeldNat
<1>2. \A c \in Credits :
        /\ rows'[c].kind = rows[c].kind /\ rows'[c].amount = rows[c].amount
        /\ rows'[c].remaining > 0 => rows[c].kind # "none"
        /\ rows[c].amount <= rows[c].remaining + Held(c) =>
             rows'[c].amount <= rows'[c].remaining + Held(c) + sess[s].take[c]
  BY WrittenRows
<1>3. RowsOK'
  BY <1>2 DEF RowsOK
<1>4. \A c \in Credits : rows[c].amount <= rows[c].remaining + Held(c)
  <2>1. \A c \in Credits :
          /\ spent[c] \in Nat /\ lapsed[c] \in Nat /\ orphaned[c] \in Nat
          /\ rows[c].amount \in Nat /\ rows[c].remaining \in Nat
    BY HeldNat DEF TypeOK
  <2>2. QED  BY <2>1 DEF NoTokenLost, Held
<1>5. \A c \in Credits : rows'[c].amount <= rows'[c].remaining + Held(c)'
  <2>1. \A c \in Credits : rows'[c].amount \in Nat /\ rows'[c].remaining \in Nat
    BY DEF TypeOK, Row
  <2> HIDE DEF Held
  <2>2. QED  BY <1>1, <1>2, <1>4, <2>1
<1>6. NoTokenLost'
  <2>1. \A c \in Credits :
          /\ spent'[c] \in Nat /\ lapsed'[c] \in Nat /\ orphaned'[c] \in Nat
          /\ rows'[c].amount \in Nat /\ rows'[c].remaining \in Nat
    BY DEF TypeOK, Row
  <2>2. QED  BY <1>5, <2>1 DEF NoTokenLost, Held
<1>7. \A c \in Credits : Held(c) <= Held(c)'
  BY <1>1
<1>8. \A c \in Credits : rows[c].kind # "none" =>
        rows'[c].kind # "none" /\ rows'[c].amount = rows[c].amount
  BY <1>2
<1>9. SnapshotsOK'
  BY <1>7, <1>8, CommitSnapshots
<1>10. QED  BY <1>3, <1>6, <1>9

LEMMA CreditStep ==
  ASSUME IInv, TypeOK', NEW s \in Sessions, CommitCredit(s)
  PROVE  RowsOK' /\ SnapshotsOK' /\ NoTokenLost'
<1> USE DEF IInv
<1>1. PICK e \in Credits, at \in Nat \cup {Never} :
        /\ rows[e] = NoRow
        /\ rows' = [rows EXCEPT ![e] =
             [kind |-> sess[s].kind, amount |-> sess[s].ask, remaining |-> sess[s].ask,
              expires |-> at, expired |-> FALSE]]
  <2>1. \E at \in Nat \cup {Never} :
          at = IF sess[s].kind = "monthly_free" THEN clock + Life ELSE Never
    <3>1. clock + Life \in Nat
      BY LedgerAssumption DEF TypeOK
    <3>2. QED  BY <3>1
  <2>2. QED  BY <2>1 DEF CommitCredit
<1>2. /\ \A c \in Credits \ {e} : rows'[c] = rows[c]
      /\ rows'[e].kind = sess[s].kind /\ rows'[e].amount = rows'[e].remaining
  BY <1>1 DEF TypeOK
<1>3. sess[s].kind # "none"
  BY DEF TypeOK, Session, Kinds
<1>4. sess' = [sess EXCEPT ![s] = Idle] /\ UNCHANGED <<spent, lapsed, orphaned>>
  BY DEF CommitCredit
<1>5. rows[e].kind = "none"
  BY <1>1 DEF NoRow
<1>6. RowsOK'
  BY <1>2, <1>3 DEF RowsOK
<1>7. NoTokenLost'
  <2>1. \A c \in Credits :
          /\ spent'[c] \in Nat /\ lapsed'[c] \in Nat /\ orphaned'[c] \in Nat
          /\ rows'[c].amount \in Nat /\ rows'[c].remaining \in Nat
    BY DEF TypeOK, Row
  <2>2. QED  BY <1>2, <1>4, <2>1 DEF NoTokenLost
<1>8. \A c \in Credits : Held(c) <= Held(c)'
  <2>1. \A c \in Credits : Held(c) \in Nat /\ Held(c)' = Held(c)
    BY <1>4, HeldNat DEF Held
  <2> HIDE DEF Held
  <2>2. QED  BY <2>1
<1>9. \A c \in Credits : rows[c].kind # "none" =>
          rows'[c].kind # "none" /\ rows'[c].amount = rows[c].amount
  BY <1>2, <1>5
<1>10. SnapshotsOK'
  BY <1>4, <1>8, <1>9, CommitSnapshots
<1>11. QED  BY <1>6, <1>7, <1>10

LEMMA ExpireStep ==
  ASSUME IInv, TypeOK', NEW s \in Sessions, CommitExpire(s)
  PROVE  RowsOK' /\ SnapshotsOK' /\ NoTokenLost'
<1> USE DEF IInv
<1> DEFINE gone == [c \in Credits |-> IF c \in sess[s].todo THEN sess[s].snap[c].remaining ELSE 0]
<1>1. /\ lapsed' = [c \in Credits |-> lapsed[c] + gone[c]]
      /\ spent' = spent /\ orphaned' = orphaned
      /\ sess' = [sess EXCEPT ![s] = Idle]
      /\ rows' = [c \in Credits |->
                   IF c \in sess[s].todo
                   THEN [rows[c] EXCEPT !.remaining = 0, !.expired = TRUE]
                   ELSE rows[c]]
  BY DEF CommitExpire, ZeroOverdue
<1>2. \A c \in Credits :
        /\ spent[c] \in Nat /\ lapsed[c] \in Nat /\ orphaned[c] \in Nat
        /\ rows[c].amount \in Nat /\ rows[c].remaining \in Nat
        /\ sess[s].snap[c].remaining \in Nat
        /\ rows'[c].kind = rows[c].kind /\ rows'[c].amount = rows[c].amount
        /\ rows'[c].remaining = IF c \in sess[s].todo THEN 0 ELSE rows[c].remaining
  <2>1. \A c \in Credits :
          /\ rows'[c].kind = rows[c].kind /\ rows'[c].amount = rows[c].amount
          /\ rows'[c].remaining = IF c \in sess[s].todo THEN 0 ELSE rows[c].remaining
    BY <1>1 DEF TypeOK, Row
  <2>2. QED  BY <2>1, HeldNat DEF TypeOK
<1>3. \A c \in Credits : Held(c)' = Held(c) + gone[c] /\ Held(c) \in Nat /\ gone[c] \in Nat
  <2>1. ASSUME NEW c \in Credits
        PROVE  /\ lapsed'[c] = lapsed[c] + gone[c] /\ gone[c] \in Nat
               /\ spent'[c] = spent[c] /\ orphaned'[c] = orphaned[c]
    BY <1>1, <1>2
  <2> HIDE DEF gone
  <2>2. QED  BY <1>2, <2>1 DEF Held
<1>4. RowsOK'
  BY <1>2 DEF RowsOK
<1>5. NoTokenLost'
  <2>1. ASSUME NEW c \in Credits
        PROVE  rows'[c].amount <= rows'[c].remaining + spent'[c] + lapsed'[c] + orphaned'[c]
    <3>1. CASE c \in sess[s].todo
      <4>1. sess[s].snap[c].remaining > 0
        BY <3>1 DEF SessionsOK, AllocOK
      <4>2. rows[c].amount <= sess[s].snap[c].remaining + Held(c)
        BY <4>1 DEF SnapshotsOK
      <4>3. lapsed'[c] = lapsed[c] + sess[s].snap[c].remaining
        BY <1>1, <3>1
      <4>4. spent'[c] = spent[c] /\ orphaned'[c] = orphaned[c] /\ rows'[c].remaining = 0
        BY <1>1, <1>2, <3>1
      <4> HIDE DEF gone
      <4>5. QED  BY ONLY c \in Credits, <1>2, <4>2, <4>3, <4>4 DEF Held
    <3>2. CASE c \notin sess[s].todo
      <4>1. lapsed'[c] = lapsed[c]
        <5>1. lapsed'[c] = lapsed[c] + 0
          BY <1>1, <3>2
        <5>2. QED  BY <1>2, <5>1
      <4>2. /\ spent'[c] = spent[c] /\ orphaned'[c] = orphaned[c]
            /\ rows'[c].amount = rows[c].amount /\ rows'[c].remaining = rows[c].remaining
        BY <1>1, <1>2, <3>2
      <4>3. rows[c].amount <= rows[c].remaining + spent[c] + lapsed[c] + orphaned[c]
        BY DEF NoTokenLost
      <4>4. QED  BY ONLY <4>1, <4>2, <4>3
    <3>3. QED  BY <3>1, <3>2
  <2>2. QED  BY <2>1 DEF NoTokenLost
<1>6. \A c \in Credits : Held(c) <= Held(c)'
  <2> HIDE DEF Held, gone
  <2>1. QED  BY <1>3
<1>7. \A c \in Credits : rows[c].kind # "none" =>
        rows'[c].kind # "none" /\ rows'[c].amount = rows[c].amount
  BY <1>2
<1>8. SnapshotsOK'
  BY <1>1, <1>6, <1>7, CommitSnapshots
<1>9. QED  BY <1>4, <1>5, <1>8

LEMMA RowsStep ==
  ASSUME IInv, [Next]_vars
  PROVE  RowsOK' /\ SnapshotsOK' /\ NoTokenLost'
<1> USE DEF IInv
<1>0. TypeOK'
  BY StepType
<1>1. CASE Tick
  BY <1>1 DEF Tick, db, history, RowsOK, SnapshotsOK, NoTokenLost, Held
<1>2. ASSUME NEW s \in Sessions, BeginDebit(s)
      PROVE  RowsOK' /\ SnapshotsOK' /\ NoTokenLost'
  <2>1. PICK amount :
          sess' = [sess EXCEPT ![s] = [Loaded("debit") EXCEPT !.ask = amount, !.need = amount]]
    BY <1>2 DEF BeginDebit
  <2> DEFINE p == [Loaded("debit") EXCEPT !.ask = amount, !.need = amount]
  <2>2. p.snap = rows
    BY DEF Loaded, Idle
  <2> HIDE DEF p
  <2>3. sess' = [sess EXCEPT ![s] = p] /\ UNCHANGED <<rows, history>>
    BY <1>2, <2>1 DEF BeginDebit, db, p
  <2>4. QED  BY <1>0, <2>2, <2>3, QuietStep
<1>3. ASSUME NEW s \in Sessions, LoadCredits(s)
      PROVE  RowsOK' /\ SnapshotsOK' /\ NoTokenLost'
  <2> DEFINE found == Spendable(sess[s].snap, clock)
             p == [sess[s] EXCEPT !.pc = "loop", !.cand = found, !.todo = found]
  <2>1. sess' = [sess EXCEPT ![s] = p] /\ UNCHANGED <<rows, history>>
    BY <1>3 DEF LoadCredits, TypeOK, db
  <2> HIDE DEF found
  <2>2. p.snap = sess[s].snap
    BY DEF TypeOK, Session
  <2> HIDE DEF p
  <2>3. QED  BY <1>0, <2>1, <2>2, QuietStep
<1>4. ASSUME NEW s \in Sessions, Consume(s)
      PROVE  RowsOK' /\ SnapshotsOK' /\ NoTokenLost'
  <2>1. PICK e \in sess[s].todo : sess' = [sess EXCEPT ![s] = Allocated(sess[s], e)]
    BY <1>4 DEF Consume
  <2>2. Allocated(sess[s], e).snap = sess[s].snap
    BY AllocatedFields
  <2>3. UNCHANGED <<rows, history>>
    BY <1>4 DEF Consume, db
  <2>4. QED  BY <1>0, <2>1, <2>2, <2>3, QuietStep
<1>5. ASSUME NEW s \in Sessions, CommitDebit(s)
      PROVE  RowsOK' /\ SnapshotsOK' /\ NoTokenLost'
  <2>1. /\ WriteRemaining(s) /\ sess' = [sess EXCEPT ![s] = Idle]
        /\ \A c \in Credits : Held(c)' = Held(c) + sess[s].take[c]
    <3>1. /\ spent' = [c \in Credits |-> spent[c] + sess[s].take[c]]
          /\ lapsed' = lapsed /\ orphaned' = orphaned
      BY <1>5 DEF CommitDebit
    <3>2. \A c \in Credits : /\ spent[c] \in Nat /\ lapsed[c] \in Nat /\ orphaned[c] \in Nat
                             /\ sess[s].take[c] \in Nat
      BY HeldNat DEF TypeOK
    <3>3. \A c \in Credits : Held(c)' = Held(c) + sess[s].take[c]
      BY <3>1, <3>2 DEF Held
    <3>4. QED  BY <1>5, <3>3 DEF CommitDebit
  <2>2. QED  BY <1>0, <2>1, WriteStep
<1>6. ASSUME NEW s \in Sessions, FailDebit(s)
      PROVE  RowsOK' /\ SnapshotsOK' /\ NoTokenLost'
  <2>1. CASE UNCHANGED <<rows, orphaned, crossed>>
    <3>1. sess' = [sess EXCEPT ![s] = Idle] /\ UNCHANGED <<rows, history>>
      BY <1>6, <2>1 DEF FailDebit, history
    <3>2. QED  BY <1>0, <3>1, QuietStep
  <2>2. CASE /\ WriteRemaining(s)
             /\ orphaned' = [c \in Credits |-> orphaned[c] + sess[s].take[c]]
    <3>1. spent' = spent /\ lapsed' = lapsed
      BY <1>6 DEF FailDebit
    <3>2. \A c \in Credits : /\ spent[c] \in Nat /\ lapsed[c] \in Nat /\ orphaned[c] \in Nat
                             /\ sess[s].take[c] \in Nat
      BY HeldNat DEF TypeOK
    <3>3. \A c \in Credits : Held(c)' = Held(c) + sess[s].take[c]
      BY <2>2, <3>1, <3>2 DEF Held
    <3>4. sess' = [sess EXCEPT ![s] = Idle]
      BY <1>6 DEF FailDebit
    <3>5. QED  BY <1>0, <2>2, <3>3, <3>4, WriteStep
  <2>3. QED  BY <1>6, <2>1, <2>2 DEF FailDebit
<1>7. ASSUME NEW s \in Sessions, BeginCredit(s)
      PROVE  RowsOK' /\ SnapshotsOK' /\ NoTokenLost'
  <2>1. PICK kind \in Kinds, n \in Amounts :
          sess' = [sess EXCEPT ![s] = [Loaded("credit") EXCEPT !.ask = n, !.kind = kind]]
    BY <1>7 DEF BeginCredit
  <2> DEFINE p == [Loaded("credit") EXCEPT !.ask = n, !.kind = kind]
  <2>2. p.snap = rows
    BY DEF Loaded, Idle
  <2> HIDE DEF p
  <2>3. sess' = [sess EXCEPT ![s] = p] /\ UNCHANGED <<rows, history>>
    BY <1>7, <2>1 DEF BeginCredit, db, p
  <2>4. QED  BY <1>0, <2>2, <2>3, QuietStep
<1>8. ASSUME NEW s \in Sessions, CommitCredit(s)
      PROVE  RowsOK' /\ SnapshotsOK' /\ NoTokenLost'
  BY <1>0, <1>8, CreditStep
<1>9. ASSUME NEW s \in Sessions, BeginExpire(s)
      PROVE  RowsOK' /\ SnapshotsOK' /\ NoTokenLost'
  <2> DEFINE p == [Loaded("expire") EXCEPT !.todo = Overdue(rows, clock)]
  <2>1. p.snap = rows
    BY DEF Loaded, Idle
  <2> HIDE DEF p
  <2>2. sess' = [sess EXCEPT ![s] = p] /\ UNCHANGED <<rows, history>>
    BY <1>9 DEF BeginExpire, db, p
  <2>3. QED  BY <1>0, <2>1, <2>2, QuietStep
<1>10. ASSUME NEW s \in Sessions, CommitExpire(s)
       PROVE  RowsOK' /\ SnapshotsOK' /\ NoTokenLost'
  BY <1>0, <1>10, ExpireStep
<1>11. ASSUME NEW s \in Sessions, Rollback(s)
       PROVE  RowsOK' /\ SnapshotsOK' /\ NoTokenLost'
  BY <1>0, <1>11, QuietStep DEF Rollback, db
<1>12. CASE UNCHANGED vars
  BY <1>12 DEF vars, RowsOK, SnapshotsOK, NoTokenLost, Held
<1>13. QED
  BY <1>1, <1>2, <1>3, <1>4, <1>5, <1>6, <1>7, <1>8, <1>9, <1>10, <1>11, <1>12
     DEF Next, Step

(***************************************************************************)
(* The theorems.                                                           *)
(***************************************************************************)
LEMMA Inductive == Spec => []IInv
<1>1. Init => IInv
  <2>1. ASSUME Init PROVE SessionsOK /\ RowsOK /\ SnapshotsOK /\ NoTokenLost
    BY <2>1, AllocIdle
       DEF Init, SessionsOK, RowsOK, SnapshotsOK, NoTokenLost, Idle, NoRow, Nothing
  <2>2. QED  BY <2>1, InitType DEF IInv
<1>2. IInv /\ [Next]_vars => IInv'
  BY StepType, AllocStep, RowsStep DEF IInv
<1>3. QED  BY <1>1, <1>2, PTL DEF Spec

\* The tables, the sessions and the history keep their types: no debit, credit or
\* expiration writes a negative remaining_tokens or balance, whatever interleaves.
THEOREM TypeCorrect == Spec => []TypeOK
<1>1. IInv => TypeOK
  BY DEF IInv
<1>2. QED  BY <1>1, Inductive, PTL

\* For any number of sessions, however they overlap, what is missing from a
\* credit is covered by debit and expire entries and the takings of failed jobs.
THEOREM NoTokenVanishes == Spec => []NoTokenLost
<1>1. IInv => NoTokenLost
  BY DEF IInv
<1>2. QED  BY <1>1, Inductive, PTL

\* The debit loop uses up the selected credits that expire sooner before it touches
\* one that expires later or never, in every session and for any set of credits.
THEOREM ExpiringCreditsFirst == Spec => []ExpiringFirst
<1>1. IInv => ExpiringFirst
  <2>1. SUFFICES ASSUME IInv, NEW s \in Sessions,
                        NEW c \in sess[s].cand, NEW d \in sess[s].cand,
                        sess[s].take[d] > 0, SoonerExpiry(sess[s].snap, c, d)
                 PROVE  sess[s].take[c] = sess[s].snap[c].remaining
    BY DEF ExpiringFirst
  <2>2. /\ sess[s] \in Session /\ AllocOK(sess[s])
        /\ c \in Credits /\ d \in Credits
    BY <2>1 DEF IInv, TypeOK, SessionsOK, Session
  <2>3. /\ sess[s].snap[c].remaining \in Nat /\ sess[s].take[c] \in Nat
        /\ sess[s].snap[c].expires \in Nat \cup {Never}
        /\ sess[s].snap[d].expires \in Nat \cup {Never}
    BY <2>2 DEF Session, Row
  <2>4. ~Before(sess[s].snap, d, c) /\ c # d
    BY <2>1, <2>3, LedgerAssumption DEF SoonerExpiry, Before
  <2>5. d \in sess[s].cand \ sess[s].todo
    BY <2>1, <2>2 DEF AllocOK
  <2>6. c \notin sess[s].todo
    BY <2>2, <2>4, <2>5 DEF AllocOK
  <2>7. ~(sess[s].take[c] < sess[s].snap[c].remaining) /\ sess[s].take[c] <= sess[s].snap[c].remaining
    BY <2>1, <2>2, <2>4, <2>5, <2>6 DEF AllocOK
  <2>8. QED  BY <2>3, <2>7
<1>2. QED  BY <1>1, Inductive, PTL

(***************************************************************************)
(* Sessions that overlap.  A commit that writes a credit marks it if it is *)
(* no longer stored as its session read it.  As long as a credit has not   *)
(* been marked, every write of it started from what was stored, so every   *)
(* token of it is in exactly one place.                                    *)
(***************************************************************************)
FreshParts == Conserved /\ ExpiredIsEmpty
FreshInv == IInv /\ FreshParts

LEMMA RowNumbers ==
  ASSUME TypeOK, NEW c \in Credits
  PROVE  /\ rows[c] \in Row /\ rows[c].amount \in Nat /\ rows[c].remaining \in Nat
         /\ spent[c] \in Nat /\ lapsed[c] \in Nat /\ orphaned[c] \in Nat
  BY DEF TypeOK, Row

\* A step that leaves the rows and the history alone.
LEMMA FreshQuiet ==
  ASSUME FreshInv, UNCHANGED <<rows, history>>
  PROVE  FreshParts' /\ UNCHANGED Book!bookVars
BY DEF FreshInv, FreshParts, Conserved, ExpiredIsEmpty, history, Book!bookVars

\* Of a credit it does not mark, a loop takes what is still stored.
LEMMA FreshWritten ==
  ASSUME IInv, NEW s \in Sessions, WriteRemaining(s),
         NEW c \in Credits, c \notin Stale(s, Taken(s))
  PROVE  /\ sess[s].take[c] \in Nat /\ sess[s].take[c] <= rows[c].remaining
         /\ rows'[c].remaining = rows[c].remaining - sess[s].take[c]
         /\ rows'[c].expired = rows[c].expired
<1>1. /\ rows[c] \in Row /\ rows[c].remaining \in Nat /\ sess[s].take[c] \in Nat
      /\ AllocOK(sess[s])
  BY RowNumbers, HeldNat DEF IInv, SessionsOK
<1>2. CASE sess[s].take[c] > 0
  <2>1. rows[c] = sess[s].snap[c]
    BY <1>2 DEF Stale, Taken
  <2>2. sess[s].take[c] <= rows[c].remaining
    BY <1>1, <2>1 DEF AllocOK
  <2> DEFINE left == rows[c].remaining - sess[s].take[c]
  <2>3. rows'[c] = [rows[c] EXCEPT !.remaining = left]
    BY <1>2, <2>1 DEF WriteRemaining
  <2> HIDE DEF left
  <2>4. rows'[c].remaining = left /\ rows'[c].expired = rows[c].expired
    BY <1>1, <2>3 DEF Row
  <2>5. QED  BY <1>1, <2>2, <2>4 DEF left
<1>3. CASE ~(sess[s].take[c] > 0)
  <2>1. rows'[c] = rows[c]
    BY <1>3 DEF WriteRemaining
  <2>2. QED  BY <1>1, <1>3, <2>1
<1>4. QED  BY <1>2, <1>3

\* Whether it marks a credit or not, the loop leaves the credit's amount.
LEMMA AmountsKept ==
  ASSUME IInv, NEW s \in Sessions, WriteRemaining(s), NEW c \in Credits
  PROVE  rows'[c].amount = rows[c].amount
  BY WrittenRows DEF IInv

\* A commit that records what it takes, as a debit or as a failed job's leavings.
LEMMA FreshTaken ==
  ASSUME FreshInv, NEW s \in Sessions, WriteRemaining(s),
         lapsed' = lapsed, crossed \cup Stale(s, Taken(s)) \subseteq crossed',
         \A c \in Credits :
           \/ spent'[c] = spent[c] + sess[s].take[c] /\ orphaned'[c] = orphaned[c]
           \/ orphaned'[c] = orphaned[c] + sess[s].take[c] /\ spent'[c] = spent[c]
  PROVE  FreshParts'
<1>1. ASSUME NEW c \in Credits \ crossed'
      PROVE  /\ rows'[c].amount = rows'[c].remaining + spent'[c] + lapsed'[c] + orphaned'[c]
             /\ rows'[c].expired => rows'[c].remaining = 0
  <2>1. /\ rows[c].amount = rows[c].remaining + spent[c] + lapsed[c] + orphaned[c]
        /\ rows[c].expired => rows[c].remaining = 0
    BY <1>1 DEF FreshInv, FreshParts, Conserved, ExpiredIsEmpty
  <2>2. /\ rows[c].amount \in Nat /\ rows[c].remaining \in Nat
        /\ spent[c] \in Nat /\ lapsed[c] \in Nat /\ orphaned[c] \in Nat
    BY RowNumbers DEF FreshInv, IInv
  <2>3. /\ sess[s].take[c] \in Nat /\ sess[s].take[c] <= rows[c].remaining
        /\ rows'[c].remaining = rows[c].remaining - sess[s].take[c]
        /\ rows'[c].expired = rows[c].expired
    BY <1>1, FreshWritten DEF FreshInv
  <2>4. rows'[c].amount = rows[c].amount
    BY AmountsKept DEF FreshInv
  <2>5. QED  BY <2>1, <2>2, <2>3, <2>4
<1>2. QED  BY <1>1 DEF FreshParts, Conserved, ExpiredIsEmpty

LEMMA FreshCredit ==
  ASSUME FreshInv, NEW s \in Sessions, CommitCredit(s)
  PROVE  FreshParts'
<1> DEFINE until == IF sess[s].kind = "monthly_free" THEN clock + Life ELSE Never
           r == [kind |-> sess[s].kind, amount |-> sess[s].ask, remaining |-> sess[s].ask,
                 expires |-> until, expired |-> FALSE]
<1>0. PICK e \in Credits : rows[e] = NoRow /\ rows' = [rows EXCEPT ![e] = r]
  BY DEF CommitCredit
<1>1. r.amount = r.remaining /\ ~r.expired
  OBVIOUS
<1> HIDE DEF r
<1>2. UNCHANGED <<spent, lapsed, orphaned>> /\ crossed \subseteq crossed'
  BY DEF CommitCredit
<1>3. rows'[e] = r /\ \A c \in Credits : c # e => rows'[c] = rows[c]
  BY <1>0 DEF FreshInv, IInv, TypeOK
<1>4. e \notin crossed => spent[e] = 0 /\ lapsed[e] = 0 /\ orphaned[e] = 0
  <2>1. e \notin crossed => 0 = 0 + spent[e] + lapsed[e] + orphaned[e]
    BY <1>0 DEF FreshInv, FreshParts, Conserved, NoRow
  <2>2. QED  BY <2>1, RowNumbers DEF FreshInv, IInv
<1>5. r.amount \in Nat
  BY <1>3, StepType DEF FreshInv, IInv, Next, Step, TypeOK, Row
<1>6. QED
  BY <1>1, <1>2, <1>3, <1>4, <1>5 DEF FreshInv, FreshParts, Conserved, ExpiredIsEmpty

\* An expiration, of which the entries take from an unmarked credit what it held.
LEMMA FreshExpire ==
  ASSUME FreshInv, NEW s \in Sessions, CommitExpire(s)
  PROVE  /\ FreshParts'
         /\ spent' = spent /\ lapsed' \in [Credits -> Nat]
         /\ \A c \in Credits : rows'[c].amount = rows[c].amount /\ lapsed[c] <= lapsed'[c]
         /\ \A c \in Credits \ crossed' : lapsed'[c] <= lapsed[c] + rows[c].remaining
<1> DEFINE gone == [c \in Credits |-> IF c \in sess[s].todo THEN sess[s].snap[c].remaining ELSE 0]
<1>1. /\ lapsed' = [c \in Credits |-> lapsed[c] + gone[c]]
      /\ spent' = spent /\ orphaned' = orphaned
      /\ rows' = [c \in Credits |->
                   IF c \in sess[s].todo
                   THEN [rows[c] EXCEPT !.remaining = 0, !.expired = TRUE]
                   ELSE rows[c]]
  BY DEF CommitExpire, ZeroOverdue
<1>2. TypeOK
  BY DEF FreshInv, IInv
<1>3. \A c \in Credits \ crossed' : c \in sess[s].todo => rows[c] = sess[s].snap[c]
  BY DEF CommitExpire, Stale
<1>4. \A c \in Credits : sess[s].snap[c].remaining \in Nat
  BY <1>2, HeldNat
<1>5. ASSUME NEW c \in Credits
      PROVE  /\ rows'[c].amount = rows[c].amount /\ lapsed'[c] \in Nat
             /\ lapsed[c] <= lapsed'[c]
             /\ rows'[c].remaining = IF c \in sess[s].todo THEN 0 ELSE rows[c].remaining
             /\ lapsed'[c] = IF c \in sess[s].todo
                             THEN lapsed[c] + sess[s].snap[c].remaining ELSE lapsed[c]
             /\ rows'[c].expired => c \in sess[s].todo \/ rows[c].expired
  <2>1. rows[c] \in Row /\ lapsed[c] \in Nat /\ sess[s].snap[c].remaining \in Nat
    BY <1>2, <1>4, RowNumbers
  <2>2. CASE c \in sess[s].todo
    <3>1. rows'[c] = [rows[c] EXCEPT !.remaining = 0, !.expired = TRUE]
      BY <1>1, <2>2
    <3>2. rows'[c].amount = rows[c].amount /\ rows'[c].remaining = 0
      BY <2>1, <3>1 DEF Row
    <3>3. lapsed'[c] = lapsed[c] + sess[s].snap[c].remaining
      BY <1>1, <2>2
    <3> HIDE DEF gone
    <3>4. QED  BY <2>1, <2>2, <3>2, <3>3
  <2>3. CASE c \notin sess[s].todo
    <3>1. rows'[c] = rows[c] /\ lapsed'[c] = lapsed[c] + 0
      BY <1>1, <2>3
    <3> HIDE DEF gone
    <3>2. QED  BY <2>1, <2>3, <3>1
  <2>4. QED  BY <2>2, <2>3
<1> HIDE DEF gone
<1>6. crossed \subseteq crossed'
  BY DEF CommitExpire
<1>7. ASSUME NEW c \in Credits \ crossed'
      PROVE  /\ lapsed'[c] <= lapsed[c] + rows[c].remaining
             /\ rows'[c].amount = rows'[c].remaining + spent'[c] + lapsed'[c] + orphaned'[c]
             /\ rows'[c].expired => rows'[c].remaining = 0
  <2>1. /\ rows[c].amount = rows[c].remaining + spent[c] + lapsed[c] + orphaned[c]
        /\ rows[c].expired => rows[c].remaining = 0
    BY <1>6, <1>7 DEF FreshInv, FreshParts, Conserved, ExpiredIsEmpty
  <2>2. /\ rows[c].amount \in Nat /\ rows[c].remaining \in Nat
        /\ spent[c] \in Nat /\ lapsed[c] \in Nat /\ orphaned[c] \in Nat
    BY <1>2, RowNumbers
  <2>3. spent'[c] = spent[c] /\ orphaned'[c] = orphaned[c]
    BY <1>1
  <2>4. c \in sess[s].todo => sess[s].snap[c].remaining = rows[c].remaining
    BY <1>3, <1>7
  <2>5. QED  BY <1>5, <2>1, <2>2, <2>3, <2>4
<1>8. lapsed' \in [Credits -> Nat]
  BY <1>1, <1>5
<1>9. QED
  BY <1>1, <1>5, <1>7, <1>8 DEF FreshParts, Conserved, ExpiredIsEmpty

\* What a step keeps of the unmarked credits, and what it is to the credit book.
LEMMA FreshStep ==
  ASSUME FreshInv, [Next]_vars
  PROVE  FreshParts' /\ [Book!Next]_Book!bookVars
<1> USE DEF FreshInv
<1> DEFINE Goal == FreshParts' /\ [Book!Next]_Book!bookVars
<1>0. TypeOK /\ TypeOK'
  BY StepType DEF IInv
<1>1. ASSUME UNCHANGED <<rows, history>>
      PROVE  Goal
  BY <1>1, FreshQuiet
<1>2. CASE Tick \/ UNCHANGED vars
  BY <1>1, <1>2 DEF Tick, vars, db, history
<1>3. ASSUME NEW s \in Sessions,
             \/ BeginDebit(s) \/ LoadCredits(s) \/ Consume(s)
             \/ BeginCredit(s) \/ BeginExpire(s) \/ Rollback(s)
      PROVE  Goal
  <2>1. UNCHANGED <<db, history>>
    BY <1>3 DEF BeginDebit, LoadCredits, Consume, BeginCredit, BeginExpire, Rollback, db, history
  <2>2. QED  BY <1>1, <2>1 DEF db
<1>4. ASSUME crossed \subseteq crossed'
      PROVE  Book!MoreDoubtful
  BY <1>4 DEF Book!MoreDoubtful
<1>5. ASSUME NEW s \in Sessions, CommitDebit(s)
      PROVE  Goal
  <2>1. /\ WriteRemaining(s) /\ lapsed' = lapsed /\ orphaned' = orphaned
        /\ spent' = [c \in Credits |-> spent[c] + sess[s].take[c]]
        /\ crossed \cup Stale(s, Taken(s)) \subseteq crossed'
    BY <1>5 DEF CommitDebit
  <2>2. FreshParts'
    BY <2>1, FreshTaken
  <2>3. \A c \in Credits : rows'[c].amount = rows[c].amount
    BY <2>1, AmountsKept
  <2>4. \A c \in Credits : spent[c] <= spent'[c]
    BY <1>0, <2>1, HeldNat, RowNumbers
  <2>5. ASSUME NEW c \in Credits \ crossed'
        PROVE  spent'[c] <= rows[c].amount - lapsed[c]
    <3>1. sess[s].take[c] \in Nat /\ sess[s].take[c] <= rows[c].remaining
      BY <2>1, <2>5, FreshWritten
    <3>2. rows[c].amount = rows[c].remaining + spent[c] + lapsed[c] + orphaned[c]
      BY <2>1, <2>5 DEF FreshParts, Conserved
    <3>3. /\ rows[c].amount \in Nat /\ rows[c].remaining \in Nat /\ spent[c] \in Nat
          /\ lapsed[c] \in Nat /\ orphaned[c] \in Nat
      BY <1>0, RowNumbers
    <3>4. spent'[c] = spent[c] + sess[s].take[c]
      BY <2>1
    <3>5. QED  BY ONLY <3>1, <3>2, <3>3, <3>4
  <2>6. spent' \in [Credits -> Nat]
    BY <1>0 DEF TypeOK
  <2>7. Book!Debit
    BY <1>4, <2>1, <2>3, <2>4, <2>5, <2>6 DEF Book!Debit, Book!RaisedWithin
  <2>8. QED  BY <2>2, <2>7 DEF Book!Next
<1>6. ASSUME NEW s \in Sessions, FailDebit(s)
      PROVE  Goal
  <2>1. lapsed' = lapsed /\ spent' = spent
    BY <1>6 DEF FailDebit
  <2>2. CASE UNCHANGED <<rows, orphaned, crossed>>
    BY <1>1, <2>1, <2>2 DEF history
  <2>3. CASE /\ WriteRemaining(s)
             /\ orphaned' = [c \in Credits |-> orphaned[c] + sess[s].take[c]]
             /\ crossed' = crossed \cup Stale(s, Taken(s))
    <3>1. FreshParts'
      BY <2>1, <2>3, FreshTaken
    <3>2. \A c \in Credits : rows'[c].amount = rows[c].amount
      BY <2>3, AmountsKept
    <3>3. Book!Overwrite
      BY <1>4, <2>1, <2>3, <3>2 DEF Book!Overwrite
    <3>4. QED  BY <3>1, <3>3 DEF Book!Next
  <2>4. QED  BY <1>6, <2>2, <2>3 DEF FailDebit
<1>7. ASSUME NEW s \in Sessions, CommitCredit(s)
      PROVE  Goal
  <2>1. FreshParts'
    BY <1>7, FreshCredit
  <2>2. PICK e \in Credits : /\ rows[e] = NoRow
                             /\ \A c \in Credits : c # e => rows'[c] = rows[c]
    BY <1>0, <1>7 DEF CommitCredit, TypeOK
  <2>3. \A c \in Credits : rows[c].amount # 0 => rows'[c].amount = rows[c].amount
    BY <2>2 DEF NoRow
  <2>4. \A c \in Credits : rows'[c].amount \in Nat
    BY <1>0 DEF TypeOK, Row
  <2>5. (crossed \cap Credits)' = crossed \cap Credits
    BY <1>7 DEF CommitCredit, StaleWallet, Wallet, Credits
  <2>6. UNCHANGED <<spent, lapsed>>
    BY <1>7 DEF CommitCredit
  <2>7. Book!Issue
    BY <2>3, <2>4, <2>5, <2>6 DEF Book!Issue
  <2>8. QED  BY <2>1, <2>7 DEF Book!Next
<1>8. ASSUME NEW s \in Sessions, CommitExpire(s)
      PROVE  Goal
  <2>1. /\ FreshParts'
        /\ spent' = spent /\ lapsed' \in [Credits -> Nat]
        /\ \A c \in Credits : rows'[c].amount = rows[c].amount /\ lapsed[c] <= lapsed'[c]
        /\ \A c \in Credits \ crossed' : lapsed'[c] <= lapsed[c] + rows[c].remaining
    BY <1>8, FreshExpire
  <2>2. crossed \subseteq crossed'
    BY <1>8 DEF CommitExpire
  <2>3. ASSUME NEW c \in Credits \ crossed'
        PROVE  lapsed'[c] <= rows[c].amount - spent[c]
    <3>1. rows[c].amount = rows[c].remaining + spent[c] + lapsed[c] + orphaned[c]
      BY <2>2, <2>3 DEF FreshParts, Conserved
    <3>2. /\ rows[c].amount \in Nat /\ rows[c].remaining \in Nat /\ spent[c] \in Nat
          /\ lapsed[c] \in Nat /\ orphaned[c] \in Nat /\ lapsed'[c] \in Nat
      BY <1>0, RowNumbers DEF TypeOK
    <3>3. lapsed'[c] <= lapsed[c] + rows[c].remaining
      BY <2>1, <2>3
    <3>4. QED  BY ONLY <3>1, <3>2, <3>3
  <2>4. Book!Lapse
    BY <1>4, <2>1, <2>2, <2>3 DEF Book!Lapse, Book!RaisedWithin
  <2>5. QED  BY <2>1, <2>4 DEF Book!Next
<1>9. QED
  BY <1>2, <1>3, <1>5, <1>6, <1>7, <1>8 DEF Next, Step

LEMMA FreshInit ==
  ASSUME Init
  PROVE  FreshInv /\ Book!Init
<1>1. IInv
  <2>1. SessionsOK /\ RowsOK /\ SnapshotsOK /\ NoTokenLost
    BY AllocIdle
       DEF Init, SessionsOK, RowsOK, SnapshotsOK, NoTokenLost, Idle, NoRow, Nothing
  <2>2. QED  BY <2>1, InitType DEF IInv
<1>2. FreshParts
  BY DEF Init, FreshParts, Conserved, ExpiredIsEmpty, NoRow, Nothing
<1>3. Book!Init
  BY DEF Init, Book!Init, NoRow, Nothing
<1>4. QED  BY <1>1, <1>2, <1>3 DEF FreshInv

LEMMA FreshInductive == Spec => []FreshInv
<1>1. Init => FreshInv
  BY FreshInit
<1>2. FreshInv /\ [Next]_vars => FreshInv'
  BY StepType, AllocStep, RowsStep, FreshStep DEF FreshInv, IInv
<1>3. QED  BY <1>1, <1>2, PTL DEF Spec

\* However many sessions overlap, each token of a credit is in exactly one place until
\* a commit overwrites an update of that credit: what debits and expirations take from
\* remaining_tokens is what their entries record.
THEOREM TokensConserved == Spec => []Conserved
<1>1. FreshInv => Conserved
  BY DEF FreshInv, FreshParts
<1>2. QED  BY <1>1, FreshInductive, PTL

\* However many sessions overlap, a credit flagged is_expired holds no tokens, unless a
\* commit has overwritten an update of it.
THEOREM ExpiredHoldsNothing == Spec => []ExpiredIsEmpty
<1>1. FreshInv => ExpiredIsEmpty
  BY DEF FreshInv, FreshParts
<1>2. QED  BY <1>1, FreshInductive, PTL

\* The debit loop, the expiration and the grants of any number of overlapping sessions
\* implement the credit book: every token leaves its credit at most once, unless the
\* credit is one of which an update was lost.
THEOREM LedgerImplementsBook == Spec => BookSpec
<1>1. Init => Book!Init
  BY FreshInit
<1>2. FreshInv /\ [Next]_vars => [Book!Next]_Book!bookVars
  BY FreshStep
<1>3. QED  BY <1>1, <1>2, FreshInductive, PTL DEF Spec, BookSpec, Book!Spec

(***************************************************************************)
(* Sums over the credits.  SumFunction is a recursive function on the sets *)
(* of credits, so what it gives is found by induction on their size, and   *)
(* that by the least set that fails.                                       *)
(***************************************************************************)
\* A set of numbers that is not empty has a least one.
LEMMA LeastElement ==
  ASSUME NEW T \in SUBSET Nat, T # {}
  PROVE  \E n \in T : \A m \in T : n <= m
<1>1. \A m, n \in Nat : <<m, n>> \in OpToRel(<, Nat) <=> m < n
  BY DEF OpToRel
<1>2. \E n \in T : \A m \in T : ~(<<m, n>> \in OpToRel(<, Nat))
  BY NatLessThanWellFounded, WFMin
<1>3. PICK n \in T : \A m \in T : ~(<<m, n>> \in OpToRel(<, Nat))
  BY <1>2
<1>4. \A m \in T : ~(m < n)
  BY <1>1, <1>3
<1>5. \A m \in T : n <= m
  BY <1>4
<1>6. QED  BY <1>5

\* The element a fold takes next, and the function it computes.
Pick(s) == CHOOSE x \in s : TRUE
Folded(f, g, s) == IF s = {} THEN 0 ELSE f[Pick(s)] + g[s \ {Pick(s)}]
IsFold(f, g) == g = [s \in SUBSET DOMAIN f |-> Folded(f, g, s)]

LEMMA PickOne ==
  ASSUME NEW D, IsFiniteSet(D), NEW s \in SUBSET D, s # {}
  PROVE  /\ Pick(s) \in s /\ s \ {Pick(s)} \in SUBSET D
         /\ Cardinality(s) \in Nat /\ Cardinality(s \ {Pick(s)}) = Cardinality(s) - 1
<1>1. Pick(s) \in s
  BY DEF Pick
<1>2. IsFiniteSet(s)
  BY FS_Subset
<1>3. Cardinality(s) \in Nat /\ Cardinality(s \ {Pick(s)}) = Cardinality(s) - 1
  BY <1>1, <1>2, FS_CardinalityType, FS_RemoveElement
<1>4. QED  BY <1>1, <1>3

LEMMA PickInduction ==
  ASSUME NEW D, IsFiniteSet(D), NEW Good \in SUBSET (SUBSET D),
         \A s \in SUBSET D : (s = {} \/ s \ {Pick(s)} \in Good) => s \in Good
  PROVE  Good = SUBSET D
<1> DEFINE Sizes == {Cardinality(s) : s \in (SUBSET D) \ Good}
<1>1. SUFFICES ASSUME NEW t \in (SUBSET D) \ Good PROVE FALSE
  OBVIOUS
<1>2. \A s \in SUBSET D : Cardinality(s) \in Nat
  BY FS_Subset, FS_CardinalityType
<1>3. Sizes \in SUBSET Nat /\ Sizes # {}
  BY <1>1, <1>2
<1>4. PICK n \in Sizes : \A m \in Sizes : n <= m
  <2> HIDE DEF Sizes
  <2>1. QED  BY <1>3, LeastElement
<1>5. PICK s \in (SUBSET D) \ Good : Cardinality(s) = n
  BY <1>4
<1>6. s # {} /\ s \ {Pick(s)} \notin Good
  BY <1>5
<1>7. s \ {Pick(s)} \in SUBSET D /\ Cardinality(s \ {Pick(s)}) = n - 1
  BY <1>5, <1>6, PickOne
<1>8. n - 1 \in Sizes
  BY <1>6, <1>7
<1> HIDE DEF Sizes
<1>9. n \in Nat /\ n <= n - 1
  BY <1>3, <1>4, <1>8
<1>10. QED  BY <1>9

LEMMA FoldExists ==
  ASSUME NEW D, IsFiniteSet(D), NEW f \in [D -> Int]
  PROVE  \E g \in [SUBSET D -> Int] : IsFold(f, g)
<1> DEFINE Upto(g, n) == \A s \in SUBSET D : Cardinality(s) <= n => g[s] = Folded(f, g, s)
           Bad == {n \in Nat : ~ \E g \in [SUBSET D -> Int] : Upto(g, n)}
<1>1. ASSUME NEW g \in [SUBSET D -> Int], NEW s \in SUBSET D
      PROVE  Folded(f, g, s) \in Int
  <2>1. CASE s = {}
    BY <2>1 DEF Folded
  <2>2. CASE s # {}
    <3>1. Pick(s) \in D /\ s \ {Pick(s)} \in SUBSET D
      BY <2>2, PickOne
    <3>2. f[Pick(s)] \in Int /\ g[s \ {Pick(s)}] \in Int
      BY <3>1
    <3>3. QED  BY <2>2, <3>2 DEF Folded
  <2>3. QED  BY <2>1, <2>2
<1>2. ASSUME NEW g \in [SUBSET D -> Int], NEW n \in Nat, n = 0 \/ Upto(g, n - 1)
      PROVE  \E h \in [SUBSET D -> Int] : Upto(h, n)
  <2> DEFINE h == [s \in SUBSET D |-> Folded(f, g, s)]
  <2>1. h \in [SUBSET D -> Int]
    BY <1>1
  <2>2. ASSUME NEW s \in SUBSET D, Cardinality(s) <= n
        PROVE  h[s] = Folded(f, h, s)
    <3>1. CASE s = {}
      BY <3>1 DEF Folded
    <3>2. CASE s # {}
      <4>1. /\ s \ {Pick(s)} \in SUBSET D
            /\ Cardinality(s) \in Nat /\ Cardinality(s \ {Pick(s)}) = Cardinality(s) - 1
        BY <3>2, PickOne
      <4>2. Cardinality(s \ {Pick(s)}) \in Nat
        BY <4>1, FS_Subset, FS_CardinalityType
      <4>3. n # 0 /\ Cardinality(s \ {Pick(s)}) <= n - 1
        BY <2>2, <4>1, <4>2
      <4>4. g[s \ {Pick(s)}] = Folded(f, g, s \ {Pick(s)})
        BY <1>2, <4>1, <4>3
      <4>5. h[s \ {Pick(s)}] = g[s \ {Pick(s)}]
        BY <4>1, <4>4
      <4>6. h[s] = Folded(f, g, s)
        OBVIOUS
      <4> HIDE DEF h
      <4>7. QED  BY <3>2, <4>5, <4>6 DEF Folded
    <3>3. QED  BY <3>1, <3>2
  <2> HIDE DEF h
  <2>3. QED  BY <2>1, <2>2
<1>3. Bad = {}
  <2>1. SUFFICES ASSUME Bad # {} PROVE FALSE
    OBVIOUS
  <2>2. PICK n \in Bad : \A m \in Bad : n <= m
    BY <2>1, LeastElement
  <2>3. \E g \in [SUBSET D -> Int] : n = 0 \/ Upto(g, n - 1)
    <3>1. CASE n = 0
      <4>1. [s \in SUBSET D |-> 0] \in [SUBSET D -> Int]
        OBVIOUS
      <4>2. QED  BY <3>1, <4>1
    <3>2. CASE n # 0
      <4>1. n \in Nat /\ n - 1 \in Nat
        BY <3>2
      <4>2. n - 1 \notin Bad
        <5> HIDE DEF Bad
        <5>1. QED  BY <2>2, <4>1
      <4>3. QED  BY <4>1, <4>2
    <3>3. QED  BY <3>1, <3>2
  <2>4. QED  BY <1>2, <2>2, <2>3
<1>4. Cardinality(D) \in Nat
  BY FS_CardinalityType
<1>5. PICK g \in [SUBSET D -> Int] : Upto(g, Cardinality(D))
  BY <1>3, <1>4
<1>6. \A s \in SUBSET D : g[s] = Folded(f, g, s)
  BY <1>5, FS_Subset
<1>7. g = [s \in SUBSET D |-> Folded(f, g, s)]
  BY <1>6
<1>8. QED  BY <1>7 DEF IsFold

LEMMA SumIsFold ==
  ASSUME NEW D, IsFiniteSet(D), NEW f \in [D -> Int]
  PROVE  \E g : IsFold(f, g) /\ SumFunction(f) = g[D]
<1> DEFINE iter == CHOOSE iter : iter = [s \in SUBSET D |->
                     IF s = {} THEN 0 ELSE f[Pick(s)] + iter[s \ {Pick(s)}]]
<1>1. DOMAIN f = D
  OBVIOUS
<1>2. SumFunction(f) = iter[D]
  BY <1>1, Zenon DEF SumFunction, SumFunctionOnSet, FoldFunctionOnSet, MapThenFoldSet, Pick
<1>3. \E g : g = [s \in SUBSET D |-> IF s = {} THEN 0 ELSE f[Pick(s)] + g[s \ {Pick(s)}]]
  <2> HIDE DEF iter
  <2>1. PICK g \in [SUBSET D -> Int] : IsFold(f, g)
    BY FoldExists
  <2>2. QED  BY <1>1, <2>1, Zenon DEF IsFold, Folded
<1>4. iter = [s \in SUBSET D |-> IF s = {} THEN 0 ELSE f[Pick(s)] + iter[s \ {Pick(s)}]]
  BY <1>3, Zenon
<1>5. IsFold(f, iter)
  BY <1>1, <1>4, Zenon DEF IsFold, Folded
<1>6. QED  BY <1>2, <1>5

\* What a fold gives for a set, by the definition.
LEMMA FoldOf ==
  ASSUME NEW f, NEW g, IsFold(f, g), NEW s \in SUBSET DOMAIN f
  PROVE  g[s] = Folded(f, g, s)
<1>1. g[s] = [t \in SUBSET DOMAIN f |-> Folded(f, g, t)][s]
  BY Zenon DEF IsFold
<1>2. QED  BY <1>1

\* The sum of a function is that of two into which it splits.
LEMMA SumSplits ==
  ASSUME NEW D, IsFiniteSet(D), NEW f \in [D -> Int], NEW a \in [D -> Int], NEW b \in [D -> Int],
         \A d \in D : f[d] = a[d] + b[d]
  PROVE  /\ SumFunction(a) \in Int /\ SumFunction(b) \in Int
         /\ SumFunction(f) = SumFunction(a) + SumFunction(b)
<1>1. PICK g : IsFold(f, g) /\ SumFunction(f) = g[D]
  BY SumIsFold
<1>2. PICK p : IsFold(a, p) /\ SumFunction(a) = p[D]
  BY SumIsFold
<1>3. PICK q : IsFold(b, q) /\ SumFunction(b) = q[D]
  BY SumIsFold
<1> DEFINE Good == {s \in SUBSET D : p[s] \in Int /\ q[s] \in Int /\ g[s] = p[s] + q[s]}
<1>4. ASSUME NEW s \in SUBSET D, s = {} \/ s \ {Pick(s)} \in Good
      PROVE  s \in Good
  <2>1. g[s] = Folded(f, g, s) /\ p[s] = Folded(a, p, s) /\ q[s] = Folded(b, q, s)
    BY <1>1, <1>2, <1>3, FoldOf
  <2>2. CASE s = {}
    BY <2>1, <2>2 DEF Folded
  <2>3. CASE s # {}
    <3>1. Pick(s) \in D
      BY <2>3, PickOne
    <3>2. QED  BY <1>4, <2>1, <2>3, <3>1 DEF Folded
  <2>4. QED  BY <2>2, <2>3
<1>5. Good \in SUBSET (SUBSET D)
  OBVIOUS
<1>6. Good = SUBSET D
  <2> HIDE DEF Good
  <2>1. QED  BY <1>4, <1>5, PickInduction
<1>7. QED  BY <1>1, <1>2, <1>3, <1>6

\* The sum of a function that is zero but for one value is that value.
LEMMA SumOfOne ==
  ASSUME NEW D, IsFiniteSet(D), NEW f \in [D -> Int], NEW c \in D, \A d \in D \ {c} : f[d] = 0
  PROVE  SumFunction(f) = f[c]
<1>1. PICK g : IsFold(f, g) /\ SumFunction(f) = g[D]
  BY SumIsFold
<1> DEFINE Good == {s \in SUBSET D : g[s] = IF c \in s THEN f[c] ELSE 0}
<1>2. ASSUME NEW s \in SUBSET D, s = {} \/ s \ {Pick(s)} \in Good
      PROVE  s \in Good
  <2>1. g[s] = Folded(f, g, s)
    BY <1>1, FoldOf
  <2>2. CASE s = {}
    BY <2>1, <2>2 DEF Folded
  <2>3. CASE s # {}
    <3>1. Pick(s) \in s
      BY <2>3, PickOne
    <3>2. QED  BY <1>2, <2>1, <2>3, <3>1 DEF Folded
  <2>4. QED  BY <2>2, <2>3
<1>3. Good \in SUBSET (SUBSET D)
  OBVIOUS
<1>4. Good = SUBSET D
  <2> HIDE DEF Good
  <2>1. QED  BY <1>2, <1>3, PickInduction
<1>5. QED  BY <1>1, <1>4

LEMMA CreditsFinite == IsFiniteSet(Credits)
  BY LedgerAssumption, FS_Interval DEF Credits

LEMMA SumOfNothing == SumFunction(Nothing) = 0
<1>1. Nothing \in [Credits -> Int] /\ \A c \in Credits : Nothing[c] = Nothing[c] + Nothing[c]
  BY DEF Nothing
<1>2. QED  BY <1>1, CreditsFinite, SumSplits

(***************************************************************************)
(* The wallet's lifetime counters.  What a debit has allocated and still   *)
(* needs is what it was asked for; a commit that marks nothing has added   *)
(* to the counter that was stored.                                         *)
(***************************************************************************)
Left == [c \in Credits |-> rows[c].remaining]
Allotted(q) == q.pc \in {"debit", "loop"} => SumFunction(q.take) + q.need = q.ask
AsAsked == \A s \in Sessions : Allotted(sess[s])
Balanced == credited = Opening + debited + SumFunction(Left) + SumFunction(orphaned)
WalletParts == AsAsked /\ WalletIdentity

LEMMA IdentityBalanced == WalletIdentity <=> (crossed = {} => Balanced)
  BY DEF WalletIdentity, Balanced, Left

LEMMA WalletNumbers ==
  ASSUME TypeOK
  PROVE  /\ Left \in [Credits -> Int] /\ SumFunction(Left) \in Int
         /\ orphaned \in [Credits -> Int] /\ SumFunction(orphaned) \in Int
         /\ credited \in Int /\ debited \in Int /\ Opening \in Int
<1>1. Left \in [Credits -> Int]
  BY RowNumbers DEF Left
<1>2. orphaned \in [Credits -> Int] /\ credited \in Int /\ debited \in Int /\ Opening \in Int
  BY LedgerAssumption DEF TypeOK
<1>3. ASSUME NEW f \in [Credits -> Int]
      PROVE  SumFunction(f) \in Int
  <2>1. /\ Nothing \in [Credits -> Int]
        /\ \A c \in Credits : f[c] = f[c] + Nothing[c]
    BY <1>3 DEF Nothing
  <2>2. QED  BY <2>1, CreditsFinite, SumSplits
<1>4. QED  BY <1>1, <1>2, <1>3

\* What the loop has taken leaves the credits, if it marks none.
LEMMA WalletTaken ==
  ASSUME IInv, TypeOK', NEW s \in Sessions, WriteRemaining(s), Stale(s, Taken(s)) = {}
  PROVE  LET n == SumFunction(sess[s].take)
         IN  n \in Int /\ SumFunction(Left') = SumFunction(Left) - n
<1>1. sess[s].take \in [Credits -> Int]
  <2>1. sess[s] \in Session
    BY DEF IInv, TypeOK
  <2>2. sess[s].take \in [Credits -> Nat]
    BY <2>1 DEF Session
  <2>3. QED  BY <2>2
<1>2. \A c \in Credits : Left[c] = Left'[c] + sess[s].take[c]
  <2>1. ASSUME NEW c \in Credits
        PROVE  rows[c].remaining = rows'[c].remaining + sess[s].take[c]
    BY FreshWritten, RowNumbers DEF IInv
  <2>2. QED  BY <2>1 DEF Left
<1>3. Left \in [Credits -> Int] /\ Left' \in [Credits -> Int]
  <2>1. \A c \in Credits : rows'[c].remaining \in Int
    BY DEF TypeOK, Row
  <2>2. QED  BY <2>1, WalletNumbers DEF IInv, Left
<1>4. QED  BY <1>1, <1>2, <1>3, CreditsFinite, SumSplits

LEMMA WalletCredit ==
  ASSUME TypeOK, TypeOK', NEW s \in Sessions, CommitCredit(s), Balanced,
         sess[s].credited = credited
  PROVE  Balanced'
<1> DEFINE until == IF sess[s].kind = "monthly_free" THEN clock + Life ELSE Never
           r == [kind |-> sess[s].kind, amount |-> sess[s].ask, remaining |-> sess[s].ask,
                 expires |-> until, expired |-> FALSE]
<1>1. PICK e \in Credits : rows[e] = NoRow /\ rows' = [rows EXCEPT ![e] = r]
  BY DEF CommitCredit
<1>2. r.remaining = sess[s].ask
  OBVIOUS
<1> HIDE DEF r
<1> DEFINE added == [c \in Credits |-> IF c = e THEN sess[s].ask ELSE 0]
<1>3. rows'[e] = r /\ \A c \in Credits : c # e => rows'[c] = rows[c]
  BY <1>1 DEF TypeOK
<1>4. sess[s].ask \in Nat
  <2>1. sess[s] \in Session
    BY DEF TypeOK
  <2>2. QED  BY <2>1 DEF Session
<1>5. added \in [Credits -> Int] /\ SumFunction(added) = sess[s].ask
  <2>1. added \in [Credits -> Int] /\ added[e] = sess[s].ask /\ \A c \in Credits \ {e} : added[c] = 0
    BY <1>4
  <2> HIDE DEF added
  <2>2. QED  BY <2>1, CreditsFinite, SumOfOne
<1>6. Left' \in [Credits -> Int]
  BY DEF Left, TypeOK, Row
<1>7. \A c \in Credits : Left'[c] = Left[c] + added[c]
  BY <1>1, <1>2, <1>3, <1>4, RowNumbers DEF Left, NoRow
<1> HIDE DEF added
<1>8. SumFunction(Left') = SumFunction(Left) + sess[s].ask
  BY <1>5, <1>6, <1>7, CreditsFinite, SumSplits, WalletNumbers
<1>9. credited = Opening + debited + SumFunction(Left) + SumFunction(orphaned)
  BY DEF Balanced
<1>10. credited' = credited + sess[s].ask /\ debited' = debited /\ orphaned' = orphaned
  BY DEF CommitCredit
<1>11. credited' = Opening + debited' + SumFunction(Left') + SumFunction(orphaned')
  BY <1>4, <1>8, <1>9, <1>10, WalletNumbers
<1>12. QED  BY <1>11 DEF Balanced

LEMMA WalletExpire ==
  ASSUME TypeOK, TypeOK', NEW s \in Sessions, CommitExpire(s), Balanced,
         sess[s].debited = debited, Stale(s, sess[s].todo) = {}
  PROVE  Balanced'
<1> DEFINE gone == [c \in Credits |-> IF c \in sess[s].todo THEN sess[s].snap[c].remaining ELSE 0]
<1>1. debited' = debited + SumFunction(gone)
  BY DEF CommitExpire
<1>2. \A c \in Credits : rows'[c].remaining = IF c \in sess[s].todo THEN 0 ELSE rows[c].remaining
  BY RowNumbers DEF CommitExpire, ZeroOverdue, Row
<1>3. \A c \in sess[s].todo : c \in Credits /\ sess[s].snap[c] = rows[c]
  BY DEF Stale, TypeOK, Session
<1>4. gone \in [Credits -> Int] /\ \A c \in Credits : Left[c] = Left'[c] + gone[c]
  BY <1>2, <1>3, RowNumbers DEF Left
<1>5. Left' \in [Credits -> Int]
  BY DEF Left, TypeOK, Row
<1> HIDE DEF gone
<1>6. SumFunction(gone) \in Int /\ SumFunction(Left') \in Int
      /\ SumFunction(Left) = SumFunction(Left') + SumFunction(gone)
  BY <1>4, <1>5, CreditsFinite, SumSplits, WalletNumbers
<1>7. credited = Opening + debited + SumFunction(Left) + SumFunction(orphaned)
  BY DEF Balanced
<1>8. credited' = credited /\ orphaned' = orphaned
  BY DEF CommitExpire
<1>9. credited' = Opening + debited' + SumFunction(Left') + SumFunction(orphaned')
  BY <1>1, <1>6, <1>7, <1>8, WalletNumbers
<1>10. QED  BY <1>9 DEF Balanced

\* The allocations of the loop and what it still needs make up what was asked for.
LEMMA AllocatedAsAsked ==
  ASSUME TypeOK, SessionsOK, NEW s \in Sessions, sess[s].pc = "loop", Allotted(sess[s]),
         NEW e \in sess[s].todo
  PROVE  Allotted(Allocated(sess[s], e))
<1> DEFINE n == Min2(sess[s].snap[e].remaining, sess[s].need)
           q == Allocated(sess[s], e)
<1>1. sess[s] \in Session
  BY DEF TypeOK
<1>2. /\ e \in Credits /\ sess[s].take \in [Credits -> Nat]
      /\ sess[s].need \in Nat /\ sess[s].ask \in Nat
  BY <1>1 DEF Session
<1>3. sess[s].take[e] = 0
  BY DEF SessionsOK, AllocOK
<1>4. q.ask = sess[s].ask
  BY <1>1 DEF Allocated, Session
<1>5. /\ n \in Nat /\ q.need = sess[s].need - n
      /\ q.take = [sess[s].take EXCEPT ![e] = n]
  BY AllocatedFields
<1> HIDE DEF n, q
<1> DEFINE one == [c \in Credits |-> IF c = e THEN n ELSE 0]
<1>6. one \in [Credits -> Int] /\ one[e] = n /\ \A c \in Credits \ {e} : one[c] = 0
  BY <1>2, <1>5
<1>7. /\ q.take \in [Credits -> Int] /\ sess[s].take \in [Credits -> Int]
      /\ \A c \in Credits : q.take[c] = sess[s].take[c] + one[c]
  BY <1>2, <1>3, <1>5
<1> HIDE DEF one
<1>8. SumFunction(one) = n
  BY <1>2, <1>6, CreditsFinite, SumOfOne
<1>9. /\ SumFunction(sess[s].take) \in Int
      /\ SumFunction(q.take) = SumFunction(sess[s].take) + n
  <2> DEFINE old == sess[s].take
             new == q.take
  <2>1. /\ new \in [Credits -> Int] /\ old \in [Credits -> Int] /\ one \in [Credits -> Int]
        /\ \A c \in Credits : new[c] = old[c] + one[c]
    BY <1>6, <1>7
  <2> HIDE DEF old, new
  <2>2. SumFunction(old) \in Int /\ SumFunction(new) = SumFunction(old) + SumFunction(one)
    BY <2>1, CreditsFinite, SumSplits
  <2>3. QED  BY <1>8, <2>2 DEF old, new
<1>10. SumFunction(sess[s].take) + sess[s].need = sess[s].ask
  BY DEF Allotted
<1>11. SumFunction(q.take) + q.need = q.ask
  BY <1>2, <1>4, <1>5, <1>9, <1>10
<1>12. QED  BY <1>4, <1>11 DEF Allotted, q

\* Every session's allocations stay what it was asked for.
LEMMA AskedStep ==
  ASSUME TypeOK, SessionsOK, AsAsked, [Next]_vars
  PROVE  AsAsked'
<1>1. CASE Tick \/ UNCHANGED vars
  BY <1>1 DEF Tick, vars, AsAsked
<1>2. ASSUME NEW s \in Sessions, NEW p, sess' = [sess EXCEPT ![s] = p], Allotted(p)
      PROVE  AsAsked'
  BY <1>2 DEF TypeOK, AsAsked
<1>3. ASSUME NEW s \in Sessions, sess' = [sess EXCEPT ![s] = Idle]
      PROVE  AsAsked'
  <2>1. Allotted(Idle)
    BY DEF Allotted, Idle
  <2>2. QED  BY <1>2, <1>3, <2>1
<1>4. ASSUME NEW s \in Sessions, BeginDebit(s)
      PROVE  AsAsked'
  <2>1. PICK ask \in Requests :
          /\ Available(rows, clock) \in 1..MaxColumn
          /\ sess' = [sess EXCEPT ![s] =
               [Loaded("debit") EXCEPT !.ask = Min2(ask, Available(rows, clock)),
                                       !.need = Min2(ask, Available(rows, clock))]]
    BY <1>4 DEF BeginDebit
  <2> DEFINE amount == Min2(ask, Available(rows, clock))
             p == [Loaded("debit") EXCEPT !.ask = amount, !.need = amount]
  <2>2. amount \in Nat
    BY <2>1, LedgerAssumption DEF Min2
  <2> HIDE DEF amount
  <2>3. Allotted(p)
    BY <2>2, SumOfNothing DEF Loaded, Idle, Allotted
  <2>4. sess' = [sess EXCEPT ![s] = p]
    BY <2>1 DEF amount
  <2> HIDE DEF p
  <2>5. QED  BY <1>2, <2>3, <2>4
<1>5. ASSUME NEW s \in Sessions, LoadCredits(s)
      PROVE  AsAsked'
  <2> DEFINE found == Spendable(sess[s].snap, clock)
             p == [sess[s] EXCEPT !.pc = "loop", !.cand = found, !.todo = found]
  <2>1. sess' = [sess EXCEPT ![s] = p]
    BY <1>5 DEF LoadCredits, TypeOK
  <2>2. sess[s] \in Session /\ Allotted(sess[s]) /\ sess[s].pc = "debit"
    BY <1>5 DEF LoadCredits, TypeOK, AsAsked
  <2> HIDE DEF found
  <2>3. Allotted(p)
    BY <2>2 DEF Session, Allotted
  <2> HIDE DEF p
  <2>4. QED  BY <1>2, <2>1, <2>3
<1>6. ASSUME NEW s \in Sessions, Consume(s)
      PROVE  AsAsked'
  <2>1. PICK e \in sess[s].todo : sess' = [sess EXCEPT ![s] = Allocated(sess[s], e)]
    BY <1>6 DEF Consume
  <2>2. sess[s].pc = "loop" /\ Allotted(sess[s])
    BY <1>6 DEF Consume, AsAsked
  <2>3. Allotted(Allocated(sess[s], e))
    BY <2>2, AllocatedAsAsked
  <2>4. QED  BY <1>2, <2>1, <2>3
<1>7. ASSUME NEW s \in Sessions, BeginCredit(s)
      PROVE  AsAsked'
  <2>1. PICK kind \in Kinds, n \in Amounts :
          sess' = [sess EXCEPT ![s] = [Loaded("credit") EXCEPT !.ask = n, !.kind = kind]]
    BY <1>7 DEF BeginCredit
  <2> DEFINE p == [Loaded("credit") EXCEPT !.ask = n, !.kind = kind]
  <2>2. Allotted(p)
    BY DEF Loaded, Idle, Allotted
  <2> HIDE DEF p
  <2>3. sess' = [sess EXCEPT ![s] = p]
    BY <2>1 DEF p
  <2>4. QED  BY <1>2, <2>2, <2>3
<1>8. ASSUME NEW s \in Sessions, BeginExpire(s)
      PROVE  AsAsked'
  <2> DEFINE p == [Loaded("expire") EXCEPT !.todo = Overdue(rows, clock)]
  <2>1. Allotted(p)
    BY DEF Loaded, Idle, Allotted
  <2>2. sess' = [sess EXCEPT ![s] = p]
    BY <1>8 DEF BeginExpire
  <2> HIDE DEF p
  <2>3. QED  BY <1>2, <2>1, <2>2
<1>9. QED
  BY <1>1, <1>3, <1>4, <1>5, <1>6, <1>7, <1>8
     DEF Next, Step, CommitDebit, FailDebit, CommitCredit, CommitExpire, Rollback

\* The counters still agree with the credits after a step that marks nothing.
LEMMA IdentityStep ==
  ASSUME IInv, TypeOK', AsAsked, WalletIdentity, [Next]_vars
  PROVE  WalletIdentity'
<1>0. TypeOK
  BY DEF IInv
<1>a. SUFFICES ASSUME crossed' = {} PROVE Balanced'
  BY DEF WalletIdentity, Balanced, Left
<1>b. crossed = {}
  BY <1>a DEF Next, Step, Tick, BeginDebit, LoadCredits, Consume, CommitDebit, FailDebit,
              BeginCredit, CommitCredit, BeginExpire, CommitExpire, Rollback, history, vars
<1>c. Balanced
  BY <1>b, IdentityBalanced
<1>d. credited = Opening + debited + SumFunction(Left) + SumFunction(orphaned)
  BY <1>c DEF Balanced
<1>1. ASSUME UNCHANGED <<rows, credited, debited, orphaned>>
      PROVE  Balanced'
  BY <1>1, <1>c DEF Balanced, Left
<1>2. CASE Tick \/ UNCHANGED vars
  BY <1>1, <1>2 DEF Tick, vars, db, history
<1>3. ASSUME NEW s \in Sessions,
             \/ BeginDebit(s) \/ LoadCredits(s) \/ Consume(s)
             \/ BeginCredit(s) \/ BeginExpire(s) \/ Rollback(s)
      PROVE  Balanced'
  <2>1. UNCHANGED <<db, history>>
    BY <1>3 DEF BeginDebit, LoadCredits, Consume, BeginCredit, BeginExpire, Rollback, db, history
  <2>2. QED  BY <1>1, <2>1 DEF db, history
<1>4. ASSUME NEW s \in Sessions, CommitDebit(s)
      PROVE  Balanced'
  <2> DEFINE n == SumFunction(sess[s].take)
  <2>1. Stale(s, Taken(s)) = {} /\ sess[s].debited = debited
    BY <1>4, <1>a DEF CommitDebit, StaleWallet
  <2>2. n \in Int /\ SumFunction(Left') = SumFunction(Left) - n
    BY <1>4, <2>1, WalletTaken DEF CommitDebit
  <2>3. n + sess[s].need = sess[s].ask /\ sess[s].need = 0
    BY <1>4 DEF CommitDebit, AsAsked, Allotted
  <2>4. debited' = debited + sess[s].ask /\ credited' = credited /\ orphaned' = orphaned
    BY <1>4, <2>1 DEF CommitDebit
  <2> HIDE DEF n
  <2>5. credited' = Opening + debited' + SumFunction(Left') + SumFunction(orphaned')
    BY <1>0, <1>d, <2>2, <2>3, <2>4, WalletNumbers
  <2>6. QED  BY <2>5 DEF Balanced
<1>5. ASSUME NEW s \in Sessions, FailDebit(s)
      PROVE  Balanced'
  <2>1. credited' = credited /\ debited' = debited
    BY <1>5 DEF FailDebit
  <2>2. CASE UNCHANGED <<rows, orphaned, crossed>>
    BY <1>1, <2>1, <2>2
  <2>3. CASE /\ WriteRemaining(s)
             /\ orphaned' = [c \in Credits |-> orphaned[c] + sess[s].take[c]]
             /\ crossed' = crossed \cup Stale(s, Taken(s))
    <3> DEFINE n == SumFunction(sess[s].take)
    <3>0. Stale(s, Taken(s)) = {}
      BY <1>a, <2>3
    <3>1. n \in Int /\ SumFunction(Left') = SumFunction(Left) - n
      BY <2>3, <3>0, WalletTaken
    <3>2. SumFunction(orphaned') = SumFunction(orphaned) + n
      <4>1. sess[s] \in Session
        BY <1>0 DEF TypeOK
      <4>2. sess[s].take \in [Credits -> Int]
        BY <4>1 DEF Session
      <4>3. orphaned' \in [Credits -> Int]
            /\ \A c \in Credits : orphaned'[c] = orphaned[c] + sess[s].take[c]
        BY <2>3 DEF TypeOK
      <4>4. QED  BY <1>0, <4>2, <4>3, CreditsFinite, SumSplits, WalletNumbers
    <3> HIDE DEF n
    <3>3. credited' = Opening + debited' + SumFunction(Left') + SumFunction(orphaned')
      BY <1>0, <1>d, <2>1, <3>1, <3>2, WalletNumbers
    <3>4. QED  BY <3>3 DEF Balanced
  <2>4. QED  BY <1>5, <2>2, <2>3 DEF FailDebit
<1>6. ASSUME NEW s \in Sessions, CommitCredit(s)
      PROVE  Balanced'
  <2>1. sess[s].credited = credited
    BY <1>6, <1>a DEF CommitCredit, StaleWallet
  <2>2. QED  BY <1>0, <1>6, <1>c, <2>1, WalletCredit
<1>7. ASSUME NEW s \in Sessions, CommitExpire(s)
      PROVE  Balanced'
  <2>1. sess[s].debited = debited /\ Stale(s, sess[s].todo) = {}
    BY <1>7, <1>a DEF CommitExpire, StaleWallet
  <2>2. QED  BY <1>0, <1>7, <1>c, <2>1, WalletExpire
<1>8. QED
  BY <1>2, <1>3, <1>4, <1>5, <1>6, <1>7 DEF Next, Step

\* However many sessions overlap, the wallet's lifetime counters agree with its credits
\* until a commit overwrites an update: what was credited, less what was debited, is
\* what the credits hold or a failed job's session removed.
THEOREM CountersAgree == Spec => []WalletIdentity
<1>1. Init => WalletParts
  <2>1. ASSUME Init PROVE WalletParts
    <3>1. Left = Nothing /\ orphaned = Nothing /\ credited = Opening /\ debited = 0
      BY <2>1 DEF Init, Left, Nothing, NoRow
    <3>2. WalletIdentity
      BY <3>1, SumOfNothing, LedgerAssumption DEF WalletIdentity, Left
    <3>3. AsAsked
      BY <2>1 DEF Init, AsAsked, Allotted, Idle
    <3>4. QED  BY <3>2, <3>3 DEF WalletParts
  <2>2. QED  BY <2>1
<1>2. IInv /\ WalletParts /\ IInv' /\ [Next]_vars => WalletParts'
  BY AskedStep, IdentityStep DEF WalletParts, IInv
<1>3. WalletParts => WalletIdentity
  BY DEF WalletParts
<1>4. QED  BY <1>1, <1>2, <1>3, Inductive, PTL DEF Spec

--------------------------------------------------------------------------------
(***************************************************************************)
(* Billing.  Its invariant adds to the promises what a request may rely on *)
(* in its snapshot, and that nobody is due or paid in the future.          *)
(***************************************************************************)
\* What a request has seen is a part of what there is; a subscription that has ended
\* stays ended; and while no other has been made the account's credit is the one seen.
SnapshotHolds ==
  \A r \in Subscribers :
    LET a == request[r].account IN
    a # NoAccount =>
      /\ Len(request[r].seen) <= Len(subs[a])
      /\ \A i \in 1..Len(request[r].seen) :
           ActiveLike(subs[a][i]) => ActiveLike(request[r].seen[i])
      /\ Len(request[r].seen) = Len(subs[a]) => request[r].row.monthly = account[a].monthly

\* No task lists an account before its time, and none has been paid before it.
PaidInThePast ==
  /\ \A k \in Scans : \A a \in scan[k].todo : scan[k].due[a] <= period
  /\ \A a \in Accounts : \A d \in paid[a] : d <= period

BillingInv ==
  /\ BillingTypeOK
  /\ SnapshotHolds /\ PaidInThePast
  /\ OneActive /\ MonthlyMatchesPlan /\ PeriodPaidOnce

--------------------------------------------------------------------------------
\* The initial state satisfies the invariant.
LEMMA InitInv == BillingInit => BillingInv
<1> SUFFICES ASSUME BillingInit PROVE BillingInv
  OBVIOUS
<1>1. BillingTypeOK
  <2>1. <<>> \in Seq(Subscription)
    OBVIOUS
  <2>2. QED
    BY <2>1 DEF BillingInit, BillingTypeOK, Unseeded, NoSeeder, NoRequest, Catalogue, AccountRow
<1>2. SnapshotHolds /\ PaidInThePast
  BY DEF BillingInit, SnapshotHolds, PaidInThePast, NoRequest
<1>3. OneActive /\ MonthlyMatchesPlan /\ PeriodPaidOnce
  BY DEF BillingInit, OneActive, MonthlyMatchesPlan, PeriodPaidOnce
<1>4. QED  BY <1>1, <1>2, <1>3 DEF BillingInv

--------------------------------------------------------------------------------
\* The snapshot a request takes is the state itself.
LEMMA StartRequestInv ==
  ASSUME BillingInv, NEW r \in Subscribers, NEW a \in Accounts, StartRequest(r, a)
  PROVE  BillingInv'
<1>1. request'[r] = [account |-> a, seen |-> subs[a], row |-> account[a], plans |-> catalogue.plans]
  BY DEF StartRequest, BillingInv, BillingTypeOK
<1>2. \A q \in Subscribers \ {r} : request'[q] = request[q]
  BY DEF StartRequest, BillingInv, BillingTypeOK
<1>3. UNCHANGED <<catalogue, subs, account, seeder, scan, period, paid>>
  BY DEF StartRequest
<1>4. BillingTypeOK'
  <2>1. request'[r] \in [account : Accounts \cup {NoAccount}, seen : Seq(Subscription),
                         row : AccountRow, plans : SUBSET Plans]
    BY <1>1 DEF BillingInv, BillingTypeOK, Catalogue
  <2>2. QED  BY <1>3, <2>1 DEF StartRequest, BillingInv, BillingTypeOK
<1>5. SnapshotHolds'
  <2> SUFFICES ASSUME NEW q \in Subscribers, request'[q].account # NoAccount
               PROVE  /\ Len(request'[q].seen) <= Len(subs[request'[q].account])
                      /\ \A i \in 1..Len(request'[q].seen) :
                           ActiveLike(subs[request'[q].account][i]) => ActiveLike(request'[q].seen[i])
                      /\ Len(request'[q].seen) = Len(subs[request'[q].account])
                           => request'[q].row.monthly = account[request'[q].account].monthly
    BY <1>3 DEF SnapshotHolds
  <2>1. CASE q = r
    <3>1. Len(subs[a]) \in Nat
      BY DEF BillingInv, BillingTypeOK
    <3>2. QED  BY <2>1, <1>1, <3>1
  <2>2. CASE q # r
    BY <2>2, <1>2 DEF BillingInv, SnapshotHolds
  <2>3. QED  BY <2>1, <2>2
<1>6. QED
  BY <1>3, <1>4, <1>5 DEF BillingInv, PaidInThePast, OneActive, MonthlyMatchesPlan, PeriodPaidOnce

--------------------------------------------------------------------------------
\* The subscriptions a request cancels keep all but their status, and none it has seen
\* is left active-like.
LEMMA CanceledRows ==
  ASSUME BillingInv, NEW r \in Subscribers, request[r].account # NoAccount
  PROVE  LET q == request[r]  a == request[r].account  n == Len(subs[a]) IN
         /\ Canceled(q) \in Seq(Subscription) /\ Len(Canceled(q)) = n
         /\ \A i \in 1..n :
              /\ Canceled(q)[i].since = subs[a][i].since
              /\ ActiveLike(Canceled(q)[i]) => ActiveLike(subs[a][i]) /\ i > Len(q.seen)
<1> DEFINE q == request[r]  a == q.account  n == Len(subs[a])
<1>1. a \in Accounts /\ subs[a] \in Seq(Subscription) /\ q.seen \in Seq(Subscription)
  BY DEF BillingInv, BillingTypeOK
<1>2. DOMAIN subs[a] = 1..n /\ n \in Nat
  BY <1>1
<1>3. Canceled(q) = [i \in 1..n |-> IF i \in Replaced(q) THEN [subs[a][i] EXCEPT !.status = "CANCELED"]
                                    ELSE subs[a][i]]
  BY <1>2 DEF Canceled
<1>4. \A i \in 1..n : subs[a][i] \in Subscription
  BY <1>1
<1>5. ASSUME NEW i \in 1..n PROVE Canceled(q)[i] \in Subscription
  <2>1. ASSUME NEW s \in Subscription PROVE [s EXCEPT !.status = "CANCELED"] \in Subscription
    BY DEF Subscription, Statuses
  <2>2. QED  BY <2>1, <1>3, <1>4
<1>6. Canceled(q) \in Seq(Subscription) /\ Len(Canceled(q)) = n
  <2>1. Canceled(q) \in [1..n -> Subscription]
    BY <1>3, <1>5
  <2>2. QED  BY <1>2, <2>1
<1>7. ASSUME NEW i \in 1..n
      PROVE  /\ Canceled(q)[i].since = subs[a][i].since
             /\ ActiveLike(Canceled(q)[i]) => ActiveLike(subs[a][i]) /\ i > Len(q.seen)
  <2>1. CASE i \in Replaced(q)
    BY <2>1, <1>3, <1>4 DEF ActiveLike, Subscription
  <2>2. CASE i \notin Replaced(q)
    <3>1. Canceled(q)[i] = subs[a][i]
      BY <2>2, <1>3
    <3>2. i <= Len(q.seen) => i \in 1..Len(q.seen)
      BY <1>1, <1>2
    <3>3. \A m \in 1..Len(q.seen) : ActiveLike(subs[a][m]) => ActiveLike(q.seen[m])
      BY DEF BillingInv, SnapshotHolds
    <3>4. i \in 1..Len(q.seen) => ~ActiveLike(q.seen[i])
      BY <2>2, <1>1 DEF Replaced
    <3>5. Len(q.seen) \in Nat
      BY <1>1
    <3>6. QED  BY <3>1, <3>2, <3>3, <3>4, <3>5
  <2>3. QED  BY <2>1, <2>2
<1>8. QED  BY <1>6, <1>7

\* A new subscription: it ends those its request has seen, and the later ones, made
\* while it was under way, are the only ones that may stay active-like beside it.
LEMMA CommitRequestInv ==
  ASSUME BillingInv, NEW r \in Subscribers, CommitRequest(r)
  PROVE  BillingInv'
<1> DEFINE q == request[r]  a == q.account  n == Len(subs[a])
<1>1. PICK p, s, renews :
        /\ a # NoAccount /\ p \in q.plans /\ s \in NewStatuses
        /\ renews \in AskedDates \cup {period + Interval[p]}
        /\ subs' = [subs EXCEPT ![a] = Append(Canceled(q), [plan |-> p, status |-> s, since |-> Len(q.seen)])]
        /\ account' = [account EXCEPT ![a] = Subscribed(q, p, renews)]
        /\ paid' = [paid EXCEPT ![a] = @ \ Reopened(q, renews)]
        /\ request' = [request EXCEPT ![r] = NoRequest]
        /\ UNCHANGED <<catalogue, seeder, scan, period>>
  BY DEF CommitRequest
<1>2. /\ a \in Accounts /\ subs[a] \in Seq(Subscription) /\ n \in Nat
      /\ q.seen \in Seq(Subscription) /\ Len(q.seen) \in Nat /\ q.row \in AccountRow
      /\ p \in Plans /\ account[a] \in AccountRow /\ period \in Nat
  BY <1>1 DEF BillingInv, BillingTypeOK
<1>3. Len(q.seen) <= n /\ (Len(q.seen) = n => q.row.monthly = account[a].monthly)
  BY <1>1 DEF BillingInv, SnapshotHolds
<1>4. Credit[p] \in Nat /\ renews \in Nat /\ NewStatuses \subseteq Statuses
  <2>1. Interval[p] \in Nat /\ Credit[p] \in Nat
    BY <1>2, BillingAssumption
  <2>2. renews \in Nat
    BY <1>1, <1>2, <2>1, BillingAssumption
  <2>3. QED  BY <2>1, <2>2, BillingAssumption
<1> DEFINE new == [plan |-> p, status |-> s, since |-> Len(q.seen)]
<1>5. new \in Subscription
  BY <1>1, <1>2, <1>4 DEF Subscription
<1>6. /\ subs'[a] = Append(Canceled(q), new) /\ Len(subs'[a]) = n + 1
      /\ subs'[a] \in Seq(Subscription) /\ subs'[a][n + 1] = new
      /\ \A i \in 1..n : subs'[a][i] = Canceled(q)[i]
  <2>1. subs'[a] = Append(Canceled(q), new)
    BY <1>1, <1>2 DEF BillingInv, BillingTypeOK
  <2>2. Canceled(q) \in Seq(Subscription) /\ Len(Canceled(q)) = n
    BY <1>1, CanceledRows
  <2>3. QED  BY <1>2, <1>5, <2>1, <2>2
<1>7. \A i \in 1..n : /\ subs'[a][i].since = subs[a][i].since
                      /\ ActiveLike(subs'[a][i]) => ActiveLike(subs[a][i]) /\ i > Len(q.seen)
  BY <1>1, <1>6, CanceledRows
<1>8. \A b \in Accounts \ {a} : subs'[b] = subs[b] /\ account'[b] = account[b]
                                /\ paid'[b] = paid[b]
  BY <1>1 DEF BillingInv, BillingTypeOK
<1>17. paid'[a] = paid[a] \ Reopened(q, renews) /\ paid' \in [Accounts -> SUBSET Nat]
  BY <1>1, <1>2 DEF BillingInv, BillingTypeOK
<1>9. account'[a] = Subscribed(q, p, renews)
  BY <1>1, <1>2 DEF BillingInv, BillingTypeOK
<1>10. BillingTypeOK'
  <2>1. subs' \in [Accounts -> Seq(Subscription)]
    BY <1>1, <1>6, <1>8 DEF BillingInv, BillingTypeOK
  <2>2. account'[a] \in AccountRow
    BY <1>2, <1>4, <1>9 DEF Subscribed, Assigned, AccountRow
  <2>3. account' \in [Accounts -> AccountRow]
    BY <1>1, <1>8, <2>2 DEF BillingInv, BillingTypeOK
  <2>4. NoRequest \in [account : Accounts \cup {NoAccount}, seen : Seq(Subscription),
                       row : AccountRow, plans : SUBSET Plans]
    <3>1. <<>> \in Seq(Subscription)
      OBVIOUS
    <3>2. QED  BY <3>1 DEF NoRequest, AccountRow
  <2>5. QED  BY <1>1, <1>17, <2>1, <2>3, <2>4 DEF BillingInv, BillingTypeOK
<1>11. SnapshotHolds'
  <2> SUFFICES ASSUME NEW t \in Subscribers, request'[t].account # NoAccount
               PROVE  /\ Len(request'[t].seen) <= Len(subs'[request'[t].account])
                      /\ \A i \in 1..Len(request'[t].seen) :
                           ActiveLike(subs'[request'[t].account][i]) => ActiveLike(request'[t].seen[i])
                      /\ Len(request'[t].seen) = Len(subs'[request'[t].account])
                           => request'[t].row.monthly = account'[request'[t].account].monthly
    BY DEF SnapshotHolds
  <2>1. t # r /\ request'[t] = request[t]
    BY <1>1 DEF BillingInv, BillingTypeOK, NoRequest
  <2>2. /\ Len(request[t].seen) <= Len(subs[request[t].account])
        /\ \A i \in 1..Len(request[t].seen) :
             ActiveLike(subs[request[t].account][i]) => ActiveLike(request[t].seen[i])
        /\ Len(request[t].seen) = Len(subs[request[t].account])
             => request[t].row.monthly = account[request[t].account].monthly
    BY <2>1 DEF BillingInv, SnapshotHolds
  <2>3. request[t].account \in Accounts /\ Len(request[t].seen) \in Nat
    BY <2>1 DEF BillingInv, BillingTypeOK
  <2>4. CASE request[t].account = a
    BY <2>1, <2>2, <2>3, <2>4, <1>2, <1>6, <1>7
  <2>5. CASE request[t].account # a
    BY <2>1, <2>2, <2>3, <2>5, <1>8
  <2>6. QED  BY <2>4, <2>5
<1>12. PaidInThePast'
  <2>1. \A b \in Accounts : paid'[b] \subseteq paid[b]
    BY <1>8, <1>17
  <2>2. QED  BY <1>1, <2>1 DEF BillingInv, PaidInThePast
<1>13. OneActive'
  <2> SUFFICES ASSUME NEW b \in Accounts, NEW i \in DOMAIN subs'[b], NEW j \in DOMAIN subs'[b], i < j,
                      ActiveLike(subs'[b][i]), ActiveLike(subs'[b][j])
               PROVE  subs'[b][j].since < i
    BY DEF OneActive
  <2>1. CASE b # a
    BY <2>1, <1>8 DEF BillingInv, OneActive
  <2>2. CASE b = a
    <3>1. i \in 1..n /\ j \in 1..(n + 1)
      <4>1. DOMAIN subs'[b] = 1..(n + 1)
        BY <2>2, <1>2, <1>6
      <4>2. \A m \in Nat : \A g, h \in 1..(m + 1) : g < h => g \in 1..m
        OBVIOUS
      <4>3. QED  BY <4>1, <4>2, <1>2
    <3>2. CASE j = n + 1
      <4>1. subs'[b][j].since = Len(q.seen)
        BY <3>2, <2>2, <1>6
      <4>2. i > Len(q.seen)
        BY <3>1, <2>2, <1>7
      <4>3. QED  BY <4>1, <4>2, <3>1, <1>2
    <3>3. CASE j # n + 1
      <4>1. j \in 1..n
        <5>1. \A m \in Nat : \A k \in 1..(m + 1) : k # m + 1 => k \in 1..m
          OBVIOUS
        <5>2. QED  BY <3>1, <3>3, <1>2, <5>1
      <4>2. DOMAIN subs[a] = 1..n
        BY <1>2
      <4>3. QED  BY <3>1, <4>1, <4>2, <2>2, <1>7, <1>2 DEF BillingInv, OneActive
    <3>4. QED  BY <3>2, <3>3
  <2>3. QED  BY <2>1, <2>2
<1>14. MonthlyMatchesPlan'
  <2> SUFFICES ASSUME NEW b \in Accounts, Len(subs'[b]) > 0,
                      subs'[b][Len(subs'[b])].since = Len(subs'[b]) - 1
               PROVE  account'[b].monthly = Credit[subs'[b][Len(subs'[b])].plan]
    BY DEF MonthlyMatchesPlan
  <2>1. CASE b # a
    BY <2>1, <1>8 DEF BillingInv, MonthlyMatchesPlan
  <2>2. CASE b = a
    <3>1. Len(q.seen) = n
      <4>1. Len(subs'[a]) = n + 1 /\ subs'[a][n + 1].since = Len(q.seen)
        BY <1>6
      <4>2. subs'[a][Len(subs'[a])].since = Len(subs'[a]) - 1
        BY <2>2
      <4>3. Len(q.seen) = (n + 1) - 1
        BY <4>1, <4>2
      <4>4. QED  BY <4>3, <1>2
    <3>2. account'[a].monthly = Assigned(Credit[p], account[a].monthly, account[a].monthly)
      BY <3>1, <1>3, <1>9 DEF Subscribed
    <3>3. QED  BY <3>2, <2>2, <1>6 DEF Assigned
  <2>3. QED  BY <2>1, <2>2
<1>15. PeriodPaidOnce'
  <2> SUFFICES ASSUME NEW b \in Accounts PROVE account'[b].reset \notin paid'[b]
    BY DEF PeriodPaidOnce
  <2>1. CASE b # a
    BY <2>1, <1>8 DEF BillingInv, PeriodPaidOnce
  <2>2. CASE b = a
    <3>1. account'[a].reset = IF renews = q.row.reset THEN account[a].reset ELSE renews
      BY <1>9 DEF Subscribed, Assigned
    <3>2. account[a].reset \notin paid[a]
      BY <1>2 DEF BillingInv, PeriodPaidOnce
    <3>3. QED  BY <2>2, <1>17, <3>1, <3>2 DEF Reopened
  <2>3. QED  BY <2>1, <2>2
<1>16. QED
  BY <1>10, <1>11, <1>12, <1>13, <1>14, <1>15 DEF BillingInv

--------------------------------------------------------------------------------
\* A request that ends without a commit leaves the others their snapshots.
LEMMA RequestFailsInv ==
  ASSUME BillingInv, NEW r \in Subscribers, RequestFails(r)
  PROVE  BillingInv'
<1>1. UNCHANGED <<catalogue, subs, account, seeder, scan, period, paid>>
  BY DEF RequestFails
<1>2. BillingTypeOK'
  <2>1. NoRequest \in [account : Accounts \cup {NoAccount}, seen : Seq(Subscription),
                       row : AccountRow, plans : SUBSET Plans]
    <3>1. <<>> \in Seq(Subscription)
      OBVIOUS
    <3>2. QED  BY <3>1 DEF NoRequest, AccountRow
  <2>2. QED  BY <1>1, <2>1 DEF RequestFails, BillingInv, BillingTypeOK
<1>3. \A t \in Subscribers : request'[t] = request[t] \/ request'[t].account = NoAccount
  BY DEF RequestFails, BillingInv, BillingTypeOK, NoRequest
<1>4. SnapshotHolds'
  BY <1>1, <1>3 DEF BillingInv, SnapshotHolds
<1>5. QED
  BY <1>1, <1>2, <1>4 DEF BillingInv, PaidInThePast, OneActive, MonthlyMatchesPlan, PeriodPaidOnce

\* Seeding changes only the catalogue.
LEMMA SeedInv ==
  ASSUME BillingInv, NEW x \in Seeders, StartSeed(x) \/ CommitSeed(x) \/ SeedFails(x)
  PROVE  BillingInv'
<1>1. UNCHANGED <<subs, account, request, scan, period, paid>>
  BY DEF StartSeed, CommitSeed, SeedFails
<1>2. \A kind : Wanted(kind) \subseteq Plans
  BY BillingAssumption DEF Wanted
<1>3. catalogue' \in Catalogue
  <2>1. CASE CommitSeed(x)
    BY <2>1, <1>2 DEF CommitSeed, Links, BillingInv, BillingTypeOK, Catalogue
  <2>2. CASE StartSeed(x) \/ SeedFails(x)
    BY <2>2 DEF StartSeed, SeedFails, BillingInv, BillingTypeOK
  <2>3. QED  BY <2>1, <2>2
<1>4. seeder' \in [Seeders -> [kind : {"none", "script", "endpoint"}, seen : Catalogue]]
  <2>1. NoSeeder \in [kind : {"none", "script", "endpoint"}, seen : Catalogue]
    BY DEF NoSeeder, Unseeded, Catalogue
  <2>2. catalogue \in Catalogue
    BY DEF BillingInv, BillingTypeOK
  <2>3. CASE StartSeed(x)
    <3>1. PICK kind \in {"script", "endpoint"} :
            seeder' = [seeder EXCEPT ![x] = [kind |-> kind, seen |-> catalogue]]
      BY <2>3 DEF StartSeed
    <3>2. [kind |-> kind, seen |-> catalogue]
            \in [kind : {"none", "script", "endpoint"}, seen : Catalogue]
      BY <2>2
    <3>3. QED  BY <3>1, <3>2 DEF BillingInv, BillingTypeOK
  <2>4. CASE CommitSeed(x) \/ SeedFails(x)
    <3>1. seeder' = [seeder EXCEPT ![x] = NoSeeder]
      BY <2>4 DEF CommitSeed, SeedFails
    <3>2. QED  BY <2>1, <3>1 DEF BillingInv, BillingTypeOK
  <2>5. QED  BY <2>3, <2>4
<1>5. QED
  BY <1>1, <1>3, <1>4
  DEF BillingInv, BillingTypeOK, SnapshotHolds, PaidInThePast, OneActive, MonthlyMatchesPlan, PeriodPaidOnce

--------------------------------------------------------------------------------
\* The plan an account has in a snapshot is a plan.
LEMMA GrantType ==
  ASSUME BillingTypeOK
  PROVE  \A a \in Accounts : Grant(a) \in Plans \cup {NoPlan}
<1> SUFFICES ASSUME NEW a \in Accounts, subs[a] # <<>>
             PROVE  subs[a][Len(subs[a])].plan \in Plans
  BY DEF Grant
<1>1. subs[a][Len(subs[a])] \in Subscription
  BY DEF BillingTypeOK
<1>2. QED  BY <1>1 DEF Subscription

\* A task keeps the dates of the accounts it has still to serve.
LEMMA ListedType ==
  ASSUME BillingTypeOK, NEW todo \in SUBSET Accounts, NEW due \in [Accounts -> Nat]
  PROVE  /\ Listed(todo, due) \in [todo : SUBSET Accounts, due : [Accounts -> Nat],
                                   grant : [Accounts -> Plans \cup {NoPlan}]]
         /\ Listed(todo, due).todo = todo
         /\ \A a \in todo : Listed(todo, due).due[a] = due[a]
<1> DEFINE dates == [a \in Accounts |-> IF a \in todo THEN due[a] ELSE 0]
           plans == [a \in Accounts |-> IF a \in todo THEN Grant(a) ELSE NoPlan]
<1>1. dates \in [Accounts -> Nat] /\ \A a \in todo : dates[a] = due[a]
  OBVIOUS
<1>2. plans \in [Accounts -> Plans \cup {NoPlan}]
  BY GrantType
<1>3. Listed(todo, due) = [todo |-> todo, due |-> dates, grant |-> plans]
  BY DEF Listed
<1> HIDE DEF dates, plans
<1>4. QED  BY <1>1, <1>2, <1>3

\* A task lists the accounts that are due now.
LEMMA StartScanInv ==
  ASSUME BillingInv, NEW k \in Scans, StartScan(k)
  PROVE  BillingInv'
<1> DEFINE dates == [a \in Accounts |-> account[a].reset]
<1>1. UNCHANGED <<catalogue, subs, account, request, seeder, period, paid>>
  BY DEF StartScan
<1>2. BillingTypeOK
  BY DEF BillingInv
<1>3. DueAccounts \in SUBSET Accounts /\ \A a \in DueAccounts : dates[a] <= period
  BY DEF DueAccounts, Due
<1>4. dates \in [Accounts -> Nat]
  BY <1>2 DEF BillingTypeOK, AccountRow
<1> DEFINE list == Listed(DueAccounts, dates)
<1>5. scan' = [scan EXCEPT ![k] = list]
  BY DEF StartScan
<1>6. /\ scan' \in [Scans -> [todo : SUBSET Accounts, due : [Accounts -> Nat],
                              grant : [Accounts -> Plans \cup {NoPlan}]]]
      /\ \A h \in Scans \ {k} : scan'[h] = scan[h]
      /\ scan'[k].todo = DueAccounts /\ \A a \in DueAccounts : scan'[k].due[a] = dates[a]
  <2>1. /\ list \in [todo : SUBSET Accounts, due : [Accounts -> Nat],
                     grant : [Accounts -> Plans \cup {NoPlan}]]
        /\ list.todo = DueAccounts /\ \A a \in DueAccounts : list.due[a] = dates[a]
    <3> HIDE DEF dates
    <3>1. QED  BY <1>2, <1>3, <1>4, ListedType DEF list
  <2> HIDE DEF list, dates
  <2>2. /\ scan' \in [Scans -> [todo : SUBSET Accounts, due : [Accounts -> Nat],
                                grant : [Accounts -> Plans \cup {NoPlan}]]]
        /\ \A h \in Scans \ {k} : scan'[h] = scan[h]
        /\ scan'[k] = list
    BY <1>2, <1>5, <2>1 DEF BillingTypeOK
  <2>3. QED  BY <2>1, <2>2
<1>7. BillingTypeOK'
  BY <1>1, <1>2, <1>6 DEF BillingTypeOK
<1>8. PaidInThePast'
  <2>1. ASSUME NEW h \in Scans, NEW a \in scan'[h].todo PROVE scan'[h].due[a] <= period
    <3>1. CASE h = k
      BY <3>1, <2>1, <1>3, <1>6
    <3>2. CASE h # k
      BY <3>2, <2>1, <1>6 DEF BillingInv, PaidInThePast
    <3>3. QED  BY <3>1, <3>2
  <2>2. QED  BY <1>1, <2>1 DEF BillingInv, PaidInThePast
<1>9. QED
  BY <1>1, <1>7, <1>8 DEF BillingInv, SnapshotHolds, OneActive, MonthlyMatchesPlan, PeriodPaidOnce

\* A payment moves the due date past the present, and so past every date ever paid for.
LEMMA ServeAccountInv ==
  ASSUME BillingInv, NEW k \in Scans, NEW a \in Accounts, ServeAccount(k, a)
  PROVE  BillingInv'
<1> DEFINE p == scan[k].grant[a]
<1>1. a \in scan[k].todo /\ UNCHANGED <<catalogue, subs, request, seeder, period>>
  BY DEF ServeAccount
<1>2. /\ scan[k].due[a] \in Nat /\ scan[k].due[a] <= period /\ period \in Nat
      /\ p \in Plans \cup {NoPlan} /\ account[a] \in AccountRow
  BY <1>1 DEF BillingInv, BillingTypeOK, PaidInThePast
<1>3. /\ \A b \in Accounts : account'[b].monthly = account[b].monthly
      /\ \A b \in Accounts \ {a} : account'[b] = account[b] /\ paid'[b] = paid[b]
      /\ account' \in [Accounts -> AccountRow] /\ paid' \in [Accounts -> SUBSET Nat]
      /\ \/ account'[a].reset = account[a].reset /\ paid'[a] = paid[a]
         \/ account'[a].reset > period /\ paid'[a] = paid[a] \cup {scan[k].due[a]}
  <2>1. CASE p = NoPlan
    BY <2>1 DEF ServeAccount, BillingInv, BillingTypeOK
  <2>2. CASE p # NoPlan
    <3>1. NextReset(a, p) \in Nat /\ NextReset(a, p) > period
      BY <2>2, <1>2, BillingAssumption DEF NextReset
    <3>2. /\ account' = [account EXCEPT ![a].reset = NextReset(a, p)]
          /\ paid' = [paid EXCEPT ![a] = @ \cup {scan[k].due[a]}]
      BY <2>2 DEF ServeAccount
    <3>3. QED  BY <3>1, <3>2, <1>2 DEF BillingInv, BillingTypeOK, AccountRow
  <2>3. QED  BY <2>1, <2>2
<1>4. /\ \A h \in Scans \ {k} : scan'[h] = scan[h]
      /\ scan'[k].todo = scan[k].todo \ {a}
      /\ \A b \in scan[k].todo \ {a} : scan'[k].due[b] = scan[k].due[b]
      /\ scan' \in [Scans -> [todo : SUBSET Accounts, due : [Accounts -> Nat],
                              grant : [Accounts -> Plans \cup {NoPlan}]]]
  <2> DEFINE left == scan[k].todo \ {a}
             due == scan[k].due
             list == Listed(left, due)
  <2>1. BillingTypeOK /\ left \in SUBSET Accounts /\ due \in [Accounts -> Nat]
    BY DEF BillingInv, BillingTypeOK
  <2>2. scan' = [scan EXCEPT ![k] = list]
    BY DEF ServeAccount
  <2>3. /\ list \in [todo : SUBSET Accounts, due : [Accounts -> Nat],
                     grant : [Accounts -> Plans \cup {NoPlan}]]
        /\ list.todo = left /\ \A b \in left : list.due[b] = due[b]
    <3> HIDE DEF left, due
    <3>1. QED  BY <2>1, ListedType DEF list
  <2>4. /\ scan' \in [Scans -> [todo : SUBSET Accounts, due : [Accounts -> Nat],
                                grant : [Accounts -> Plans \cup {NoPlan}]]]
        /\ \A h \in Scans \ {k} : scan'[h] = scan[h]
        /\ scan'[k] = list
    <3> HIDE DEF left, due, list
    <3>1. QED  BY <2>1, <2>2, <2>3 DEF BillingTypeOK
  <2>5. QED
    <3> HIDE DEF list
    <3>1. QED  BY <2>3, <2>4
<1>5. BillingTypeOK'
  BY <1>1, <1>3, <1>4 DEF BillingInv, BillingTypeOK
<1>6. SnapshotHolds'
  <2>1. \A t \in Subscribers : request[t].account # NoAccount => request[t].account \in Accounts
    BY DEF BillingInv, BillingTypeOK
  <2>2. QED  BY <1>1, <1>3, <2>1 DEF BillingInv, SnapshotHolds
<1>7. PaidInThePast'
  <2>1. ASSUME NEW h \in Scans, NEW b \in scan'[h].todo PROVE scan'[h].due[b] <= period
    <3>1. CASE h = k
      BY <3>1, <2>1, <1>4 DEF BillingInv, PaidInThePast
    <3>2. CASE h # k
      BY <3>2, <2>1, <1>4 DEF BillingInv, PaidInThePast
    <3>3. QED  BY <3>1, <3>2
  <2>2. QED  BY <1>1, <1>2, <1>3, <2>1 DEF BillingInv, PaidInThePast
<1>8. MonthlyMatchesPlan' /\ OneActive'
  BY <1>1, <1>3 DEF BillingInv, MonthlyMatchesPlan, OneActive
<1>9. PeriodPaidOnce'
  <2> SUFFICES ASSUME NEW b \in Accounts PROVE account'[b].reset \notin paid'[b]
    BY DEF PeriodPaidOnce
  <2>1. CASE b # a
    BY <2>1, <1>3 DEF BillingInv, PeriodPaidOnce
  <2>2. CASE b = a /\ account'[a].reset > period /\ paid'[a] = paid[a] \cup {scan[k].due[a]}
    <3>1. \A d \in paid'[a] : d \in Nat /\ d <= period
      BY <2>2, <1>2 DEF BillingInv, BillingTypeOK, PaidInThePast
    <3>2. account'[a].reset \in Nat
      BY <1>3 DEF AccountRow
    <3>3. QED  BY <2>2, <3>1, <3>2, <1>2
  <2>3. CASE b = a /\ account'[a].reset = account[a].reset /\ paid'[a] = paid[a]
    BY <2>3 DEF BillingInv, PeriodPaidOnce
  <2>4. QED  BY <2>1, <2>2, <2>3, <1>3
<1>10. QED
  BY <1>5, <1>6, <1>7, <1>8, <1>9 DEF BillingInv

\* A task that ends early has fewer accounts to serve; time only passes.
LEMMA RestInv ==
  ASSUME BillingInv, (\E k \in Scans : ScanFails(k)) \/ NextPeriod \/ UNCHANGED billingVars
  PROVE  BillingInv'
<1>1. CASE \E k \in Scans : ScanFails(k)
  <2>1. PICK k \in Scans : ScanFails(k)
    BY <1>1
  <2>2. UNCHANGED <<catalogue, subs, account, request, seeder, period, paid>>
    BY <2>1 DEF ScanFails
  <2>3. /\ scan' \in [Scans -> [todo : SUBSET Accounts, due : [Accounts -> Nat],
                                grant : [Accounts -> Plans \cup {NoPlan}]]]
        /\ \A h \in Scans \ {k} : scan'[h] = scan[h]
        /\ scan'[k].todo = {}
    <3> DEFINE due == scan[k].due
               list == Listed({}, due)
    <3>1. BillingTypeOK /\ due \in [Accounts -> Nat]
      BY DEF BillingInv, BillingTypeOK
    <3>2. scan' = [scan EXCEPT ![k] = list]
      BY <2>1 DEF ScanFails
    <3>3. /\ list \in [todo : SUBSET Accounts, due : [Accounts -> Nat],
                       grant : [Accounts -> Plans \cup {NoPlan}]]
          /\ list.todo = {}
      <4> HIDE DEF due
      <4>1. QED  BY <3>1, ListedType DEF list
    <3> HIDE DEF due, list
    <3>4. /\ scan' \in [Scans -> [todo : SUBSET Accounts, due : [Accounts -> Nat],
                                  grant : [Accounts -> Plans \cup {NoPlan}]]]
          /\ \A h \in Scans \ {k} : scan'[h] = scan[h]
          /\ scan'[k] = list
      BY <3>1, <3>2, <3>3 DEF BillingTypeOK
    <3>5. QED  BY <3>3, <3>4
  <2>4. BillingTypeOK'
    BY <2>2, <2>3 DEF BillingInv, BillingTypeOK
  <2>5. PaidInThePast'
    BY <2>2, <2>3 DEF BillingInv, PaidInThePast
  <2>6. QED
    BY <2>2, <2>4, <2>5 DEF BillingInv, SnapshotHolds, OneActive, MonthlyMatchesPlan, PeriodPaidOnce
<1>2. CASE NextPeriod
  <2>1. period' = period + 1 /\ UNCHANGED <<catalogue, subs, account, request, seeder, scan, paid>>
    BY <1>2 DEF NextPeriod
  <2>2. BillingTypeOK'
    <3>1. period' \in Nat
      BY <2>1 DEF BillingInv, BillingTypeOK
    <3>2. QED  BY <2>1, <3>1 DEF BillingInv, BillingTypeOK
  <2>3. PaidInThePast'
    <3>1. \A d \in Nat : d <= period => d <= period'
      BY <2>1 DEF BillingInv, BillingTypeOK
    <3>2. /\ \A k \in Scans : \A a \in scan[k].todo : scan[k].due[a] \in Nat
          /\ \A a \in Accounts : paid[a] \subseteq Nat
      BY DEF BillingInv, BillingTypeOK
    <3>3. QED  BY <2>1, <3>1, <3>2 DEF BillingInv, PaidInThePast
  <2>4. QED
    BY <2>1, <2>2, <2>3 DEF BillingInv, SnapshotHolds, OneActive, MonthlyMatchesPlan, PeriodPaidOnce
<1>3. CASE UNCHANGED billingVars
  BY <1>3 DEF billingVars, BillingInv, BillingTypeOK, SnapshotHolds, PaidInThePast, OneActive, MonthlyMatchesPlan,
              PeriodPaidOnce
<1>4. QED  BY <1>1, <1>2, <1>3

--------------------------------------------------------------------------------
LEMMA NextInv == BillingInv /\ [BillingNext]_billingVars => BillingInv'
<1> SUFFICES ASSUME BillingInv, [BillingNext]_billingVars PROVE BillingInv'
  OBVIOUS
<1>1. ASSUME NEW x \in Seeders, StartSeed(x) \/ CommitSeed(x) \/ SeedFails(x) PROVE BillingInv'
  BY <1>1, SeedInv
<1>2. ASSUME NEW r \in Subscribers, NEW a \in Accounts, StartRequest(r, a) PROVE BillingInv'
  BY <1>2, StartRequestInv
<1>3. ASSUME NEW r \in Subscribers, CommitRequest(r) PROVE BillingInv'
  BY <1>3, CommitRequestInv
<1>4. ASSUME NEW r \in Subscribers, RequestFails(r) PROVE BillingInv'
  BY <1>4, RequestFailsInv
<1>5. ASSUME NEW k \in Scans, StartScan(k) PROVE BillingInv'
  BY <1>5, StartScanInv
<1>6. ASSUME NEW k \in Scans, NEW a \in Accounts, ServeAccount(k, a) PROVE BillingInv'
  BY <1>6, ServeAccountInv
<1>7. QED
  BY <1>1, <1>2, <1>3, <1>4, <1>5, <1>6, RestInv DEF BillingNext

\* The tables, the requests and the tasks keep their types.
THEOREM BillingTypeCorrect == BillingSpec => []BillingTypeOK
<1>1. BillingInv => BillingTypeOK
  BY DEF BillingInv
<1>2. QED  BY InitInv, NextInv, <1>1, PTL DEF BillingSpec

\* Two subscriptions of an account are active-like at once only if the request that
\* made the later one had begun before the earlier one was committed, for any number
\* of overlapping requests, plans and statuses.
THEOREM OneActiveUnlessOverlapped == BillingSpec => []OneActive
<1>1. BillingInv => OneActive
  BY DEF BillingInv
<1>2. QED  BY InitInv, NextInv, <1>1, PTL DEF BillingSpec

\* The credit stored on an account is its latest plan's, unless that subscription was
\* requested while another was being made.
THEOREM CreditOfLatestPlan == BillingSpec => []MonthlyMatchesPlan
<1>1. BillingInv => MonthlyMatchesPlan
  BY DEF BillingInv
<1>2. QED  BY InitInv, NextInv, <1>1, PTL DEF BillingSpec

\* An account that has been paid for a due date is never again due for that date, for any
\* number of overlapping tasks and requests, unless a request asks for the date anew,
\* whatever dates requests ask for.
THEOREM PaidDatesAreOver == BillingSpec => []PeriodPaidOnce
<1>1. BillingInv => PeriodPaidOnce
  BY DEF BillingInv
<1>2. QED  BY InitInv, NextInv, <1>1, PTL DEF BillingSpec
================================================================================
