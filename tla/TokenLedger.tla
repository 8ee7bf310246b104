------------------------------ MODULE TokenLedger ------------------------------
(***************************************************************************)
(* The token wallet of one account: its credit entries, the debit loop,    *)
(* expiration, and the stored balance, as database sessions run them.      *)
(*                                                                         *)
(* A session is one HTTP request or Celery task.  It reads a REPEATABLE    *)
(* READ snapshot with its first query and writes absolute values when it   *)
(* commits; nothing locks a row in between.  SessionLocal is built with    *)
(* autoflush=False, so a query sees no change the session has not flushed. *)
(*                                                                         *)
(* `spent`, `lapsed` and `orphaned` are history variables: what the DEBIT  *)
(* and EXPIRE entries of the ledger record against each credit, and what   *)
(* left a credit with no entry recording it.  So is `crossed`: where a     *)
(* commit has overwritten what another session committed after its own had *)
(* read the row, an update that nothing in the code prevents from being    *)
(* lost.                                                                   *)
(***************************************************************************)
EXTENDS Naturals, Functions

CONSTANTS
  MaxCredits,       \* bound: credit entries of the wallet
  Sessions,         \* concurrent database sessions
  JobSessions,      \* those of execute_sync_job, which commit after an error
  Amounts,          \* tokens a credit may carry
  Requests,         \* tokens a debit may ask for
  Opening,          \* accounts.token_balance when the wallet is created
  Life,             \* ticks until a monthly credit expires (30 days)
  MaxTime,          \* bound: last clock value
  MaxColumn,        \* bound: largest value of the INTEGER balance columns
  Never             \* expires_at IS NULL

ASSUME LedgerAssumption ==
  /\ MaxCredits \in Nat /\ MaxTime \in Nat /\ MaxColumn \in Nat /\ Life \in Nat
  /\ Amounts \subseteq Nat \ {0}
  /\ Requests \subseteq Nat \ {0}
  /\ Opening \in Nat
  /\ JobSessions \subseteq Sessions
  /\ Never \notin Nat

Credits == 1..MaxCredits
Kinds == {"monthly_free", "lasting"}

VARIABLES
  rows,             \* token_ledger: the CREDIT entries
  balance,          \* token_wallets.balance_tokens = accounts.token_balance
  credited,         \* token_wallets.lifetime_credited_tokens
  debited,          \* token_wallets.lifetime_debited_tokens
  sess,             \* what each session has read and not yet committed
  clock,
  spent, lapsed, orphaned,
  crossed           \* credits, and the wallet, with a lost update

db == <<rows, balance, credited, debited>>
history == <<spent, lapsed, orphaned, crossed>>
vars == <<rows, balance, credited, debited, sess, clock, spent, lapsed, orphaned, crossed>>

\* A credit entry; kind "none" is an identifier not inserted yet.
Row == [kind : Kinds \cup {"none"}, amount : Nat, remaining : Nat,
        expires : Nat \cup {Never}, expired : BOOLEAN]
NoRow == [kind |-> "none", amount |-> 0, remaining |-> 0,
          expires |-> Never, expired |-> FALSE]
Nothing == [c \in Credits |-> 0]
Wallet == 0         \* stands beside the credits in `crossed`

Session ==
  [pc : {"idle", "debit", "loop", "credit", "expire"},
   snap : [Credits -> Row],             \* the rows its snapshot shows
   balance : Nat, credited : Nat, debited : Nat,   \* the wallet it loaded
   ask : Nat,                           \* debit_amount, or the tokens of a credit
   kind : Kinds,                        \* allocation type of a credit
   need : Nat,                          \* `remaining` of the debit loop
   cand : SUBSET Credits,               \* the credits its query selected
   todo : SUBSET Credits,               \* those the loop has not reached
   take : [Credits -> Nat]]             \* its allocations
Idle == [pc |-> "idle", snap |-> [c \in Credits |-> NoRow],
         balance |-> 0, credited |-> 0, debited |-> 0, ask |-> 0,
         kind |-> "lasting", need |-> 0, cand |-> {}, todo |-> {}, take |-> Nothing]

\* What a session holds after ensure_wallet and its first query.
Loaded(pc) ==
  [Idle EXCEPT !.pc = pc, !.snap = rows, !.balance = balance,
               !.credited = credited, !.debited = debited]

Min2(a, b) == IF a <= b THEN a ELSE b

(***************************************************************************)
(* The queries.                                                            *)
(***************************************************************************)
Unexpired(r, now) ==
  /\ ~r.expired
  /\ r.expires = Never \/ r.expires > now

\* Spendable: remaining_tokens > 0, not flagged, not past its expiry.
Spendable(t, now) == {c \in Credits : t[c].remaining > 0 /\ Unexpired(t[c], now)}

\* total_available_tokens of calculate_breakdown over the rows `t`.
Available(t, now) ==
  SumFunction([c \in Credits |-> IF c \in Spendable(t, now) THEN t[c].remaining ELSE 0])

\* The credits expire_tokens selects.
Overdue(t, now) ==
  {c \in Credits : /\ t[c].remaining > 0
                   /\ ~t[c].expired
                   /\ t[c].expires # Never
                   /\ t[c].expires <= now}

\* A debit ordered by insertion alone (mutant of Before).
BeforeById(t, c, d) == c < d

\* The debit's ORDER BY: NULL expiry last, then expiry, then created_at and id.
Before(t, c, d) ==
  \/ t[c].expires # Never /\ t[d].expires = Never
  \/ t[c].expires # Never /\ t[d].expires # Never /\ t[c].expires < t[d].expires
  \/ t[c].expires = t[d].expires /\ c < d

--------------------------------------------------------------------------------
Init ==
  /\ rows = [c \in Credits |-> NoRow]
  /\ balance = Opening
  /\ credited = Opening
  /\ debited = 0
  /\ sess = [s \in Sessions |-> Idle]
  /\ clock = 0
  /\ spent = Nothing
  /\ lapsed = Nothing
  /\ orphaned = Nothing
  /\ crossed = {}

Tick ==
  /\ clock < MaxTime
  /\ clock' = clock + 1
  /\ UNCHANGED <<db, sess, history>>

\* sync_account_balance: the total is queried over what is flushed, that is
\* over the session's snapshot without its own change, and then assigned; an
\* attribute whose value does not change is not part of the UPDATE.
SyncBalance(s) ==
  LET total == Available(sess[s].snap, clock) IN
  /\ total \in 0..MaxColumn
  /\ balance' = IF total = sess[s].balance THEN balance ELSE total

\* The credits a commit writes that are no longer stored as its session read them,
\* and the wallet if the counter it adds to is no longer the stored one.
Stale(s, written) == {c \in written : rows[c] # sess[s].snap[c]}
StaleWallet(loaded, stored) == IF loaded = stored THEN {} ELSE {Wallet}
Taken(s) == {c \in Credits : sess[s].take[c] > 0}

(***************************************************************************)
(* debit_tokens.  A debit that finds nothing available records an entry    *)
(* with no tokens, which changes no variable of this module.               *)
(***************************************************************************)
BeginDebit(s) ==
  /\ sess[s].pc = "idle"
  /\ \E ask \in Requests :
        LET total == Available(rows, clock)
            amount == Min2(ask, total)
        IN /\ total \in 1..MaxColumn
           /\ sess' = [sess EXCEPT ![s] = [Loaded("debit") EXCEPT !.ask = amount,
                                                                 !.need = amount]]
  /\ UNCHANGED <<db, clock, history>>

\* The second query, with a clock reading of its own.
LoadCredits(s) ==
  /\ sess[s].pc = "debit"
  /\ LET found == Spendable(sess[s].snap, clock) IN
        sess' = [sess EXCEPT ![s] = [@ EXCEPT !.pc = "loop", !.cand = found, !.todo = found]]
  /\ UNCHANGED <<db, clock, history>>

\* One turn of the loop over the ordered credits.
Allocated(p, c) ==
  LET consume == Min2(p.snap[c].remaining, p.need)
  IN  [p EXCEPT !.need = @ - consume,
                !.todo = @ \ {c},
                !.take = [@ EXCEPT ![c] = consume]]

Consume(s) ==
  /\ sess[s].pc = "loop"
  /\ sess[s].need > 0
  /\ \E c \in sess[s].todo :
        /\ \A d \in sess[s].todo \ {c} : Before(sess[s].snap, c, d)
        /\ sess' = [sess EXCEPT ![s] = Allocated(sess[s], c)]
  /\ UNCHANGED <<db, clock, history>>

\* Mutants of WriteRemaining: a credit emptied by a partial use, the UPDATE forgotten.
WriteEmptied(s) ==
  rows' = [c \in Credits |->
             IF sess[s].take[c] > 0 THEN [rows[c] EXCEPT !.remaining = 0] ELSE rows[c]]
WriteNothing(s) == UNCHANGED rows

\* The UPDATE of the credits a session has consumed from.
WriteRemaining(s) ==
  rows' = [c \in Credits |->
             IF sess[s].take[c] > 0
             THEN [rows[c] EXCEPT !.remaining = sess[s].snap[c].remaining - sess[s].take[c]]
             ELSE rows[c]]

CommitDebit(s) ==
  /\ sess[s].pc = "loop"
  /\ sess[s].need = 0
  /\ WriteRemaining(s)
  /\ SyncBalance(s)
  /\ debited' = sess[s].debited + sess[s].ask
  /\ spent' = [c \in Credits |-> spent[c] + sess[s].take[c]]
  /\ crossed' = crossed \cup Stale(s, Taken(s)) \cup StaleWallet(sess[s].debited, debited)
  /\ sess' = [sess EXCEPT ![s] = Idle]
  /\ UNCHANGED <<credited, clock, lapsed, orphaned>>

\* The 409: credits expired between the two queries and the loop ran dry.  A
\* request discards the session; execute_sync_job catches the exception and
\* mark_failed commits the same session, consumed credits included.
FailDebit(s) ==
  /\ sess[s].pc = "loop"
  /\ sess[s].need > 0
  /\ sess[s].todo = {}
  /\ \/ /\ s \notin JobSessions
        /\ UNCHANGED <<rows, orphaned, crossed>>
     \/ /\ s \in JobSessions
        /\ WriteRemaining(s)
        /\ crossed' = crossed \cup Stale(s, Taken(s))
        /\ orphaned' = [c \in Credits |-> orphaned[c] + sess[s].take[c]]
  /\ sess' = [sess EXCEPT ![s] = Idle]
  /\ UNCHANGED <<balance, credited, debited, clock, spent, lapsed>>

(***************************************************************************)
(* _create_credit_entry, called for a plan's monthly credit, a purchased   *)
(* package or a manual grant.                                              *)
(***************************************************************************)
BeginCredit(s) ==
  /\ sess[s].pc = "idle"
  /\ \E kind \in Kinds, n \in Amounts :
        sess' = [sess EXCEPT ![s] = [Loaded("credit") EXCEPT !.ask = n, !.kind = kind]]
  /\ UNCHANGED <<db, clock, history>>

CommitCredit(s) ==
  /\ sess[s].pc = "credit"
  /\ \E c \in Credits :
        /\ rows[c] = NoRow
        /\ \A d \in Credits : d < c => rows[d] # NoRow      \* AUTO_INCREMENT
        /\ rows' = [rows EXCEPT ![c] =
             [kind |-> sess[s].kind, amount |-> sess[s].ask, remaining |-> sess[s].ask,
              expires |-> IF sess[s].kind = "monthly_free" THEN clock + Life ELSE Never,
              expired |-> FALSE]]
  /\ SyncBalance(s)
  /\ credited' = sess[s].credited + sess[s].ask
  /\ crossed' = crossed \cup StaleWallet(sess[s].credited, credited)
  /\ sess' = [sess EXCEPT ![s] = Idle]
  /\ UNCHANGED <<debited, clock, spent, lapsed, orphaned>>

(***************************************************************************)
(* expire_tokens for this account.                                         *)
(***************************************************************************)
BeginExpire(s) ==
  /\ sess[s].pc = "idle"
  /\ Overdue(rows, clock) # {}
  /\ sess' = [sess EXCEPT ![s] = [Loaded("expire") EXCEPT !.todo = Overdue(rows, clock)]]
  /\ UNCHANGED <<db, clock, history>>

\* Expiration that flags a credit and leaves its tokens (mutant of ZeroOverdue).
FlagOverdue(s) ==
  rows' = [c \in Credits |->
             IF c \in sess[s].todo THEN [rows[c] EXCEPT !.expired = TRUE] ELSE rows[c]]

ZeroOverdue(s) ==
  rows' = [c \in Credits |->
             IF c \in sess[s].todo
             THEN [rows[c] EXCEPT !.remaining = 0, !.expired = TRUE]
             ELSE rows[c]]

CommitExpire(s) ==
  /\ sess[s].pc = "expire"
  /\ LET gone == [c \in Credits |-> IF c \in sess[s].todo THEN sess[s].snap[c].remaining ELSE 0]
     IN /\ SumFunction(gone) \in 0..MaxColumn
        /\ debited' = sess[s].debited + SumFunction(gone)
        /\ lapsed' = [c \in Credits |-> lapsed[c] + gone[c]]
  /\ crossed' = crossed \cup Stale(s, sess[s].todo) \cup StaleWallet(sess[s].debited, debited)
  /\ ZeroOverdue(s)
  /\ SyncBalance(s)
  /\ sess' = [sess EXCEPT ![s] = Idle]
  /\ UNCHANGED <<credited, clock, spent, orphaned>>

\* A request fails, or a worker dies, before its commit.
Rollback(s) ==
  /\ sess[s].pc # "idle"
  /\ sess' = [sess EXCEPT ![s] = Idle]
  /\ UNCHANGED <<db, clock, history>>

Step(s) ==
  \/ BeginDebit(s) \/ LoadCredits(s) \/ Consume(s) \/ CommitDebit(s) \/ FailDebit(s)
  \/ BeginCredit(s) \/ CommitCredit(s)
  \/ BeginExpire(s) \/ CommitExpire(s)
  \/ Rollback(s)

Next == Tick \/ \E s \in Sessions : Step(s)

Spec == Init /\ [][Next]_vars

--------------------------------------------------------------------------------
(***************************************************************************)
(* Properties.                                                             *)
(***************************************************************************)

\* Types of the tables, the sessions and the history.
TypeOK ==
  /\ rows \in [Credits -> Row]
  /\ balance \in Nat /\ credited \in Nat /\ debited \in Nat
  /\ sess \in [Sessions -> Session]
  /\ clock \in 0..MaxTime
  /\ spent \in [Credits -> Nat]
  /\ lapsed \in [Credits -> Nat]
  /\ orphaned \in [Credits -> Nat]
  /\ crossed \subseteq Credits \cup {Wallet}

\* However sessions interleave, a token missing from a credit is accounted for:
\* a debit or expire entry records it, or a failed job's session took it.
NoTokenLost ==
  \A c \in Credits :
    rows[c].amount <= rows[c].remaining + spent[c] + lapsed[c] + orphaned[c]

\* Each token of a credit is in exactly one place, as the priority-debit test expects,
\* however requests, jobs and expirations interleave, until a commit overwrites an
\* update of that credit: only then can a token be spent twice.
Conserved ==
  \A c \in Credits \ crossed :
    rows[c].amount = rows[c].remaining + spent[c] + lapsed[c] + orphaned[c]

\* The wallet's lifetime counters agree with the credits: what was ever credited and
\* not debited is what the credits hold (or a failed job removed), whichever sessions
\* were at work at once, until one of them overwrites another's update.
WalletIdentity ==
  crossed = {} =>
    credited = Opening + debited + SumFunction([c \in Credits |-> rows[c].remaining])
                       + SumFunction(orphaned)

\* A credit flagged is_expired holds no tokens: the expiration scan zeroed it and no
\* debit gave it any back, unless one of them overwrote the other's update.
ExpiredIsEmpty ==
  \A c \in Credits \ crossed : rows[c].expired => rows[c].remaining = 0

SoonerExpiry(t, c, d) ==
  /\ t[c].expires # Never
  /\ t[d].expires = Never \/ t[c].expires < t[d].expires

\* A debit touches a credit only when every selected credit that expires sooner is
\* used up: monthly tokens by soonest expiry, then the ones that never expire.
ExpiringFirst ==
  \A s \in Sessions : \A c, d \in sess[s].cand :
    sess[s].take[d] > 0 /\ SoonerExpiry(sess[s].snap, c, d)
      => sess[s].take[c] = sess[s].snap[c].remaining

\* The debit is applied to the stored balance: after a debit commits, the balance
\* the dashboards read is the total that is left.
DebitReachesBalance ==
  [][spent' # spent => balance' = Available(rows', clock)]_vars

\* The ledger implements the credit book, in which every token of a credit leaves at
\* most once unless updates of that credit crossed.
Book == INSTANCE CreditBook WITH
  issued <- [c \in Credits |-> rows[c].amount], debited <- spent, lapsed <- lapsed,
  doubtful <- crossed \cap Credits
BookSpec == Book!Spec
================================================================================
