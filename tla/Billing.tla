-------------------------------- MODULE Billing --------------------------------
(***************************************************************************)
(* Plans, subscriptions and the monthly credit.                            *)
(*                                                                         *)
(* A request reads everything from the snapshot its first query opened and *)
(* commits in one transaction: the INSERT of the subscription and the      *)
(* UPDATE of the account lock the account's row, so two commits for one    *)
(* account do not overlap and subscription ids follow the commits.  What a *)
(* credit does to the wallet and the ledger is TokenLedger's matter; here  *)
(* a credit is the due date it was paid for.  The unit of time is a        *)
(* billing period, so no request and no task lasts from one to the next.   *)
(* Nothing ever clears accounts.is_active, on which the monthly task also  *)
(* filters, so it is left out.                                             *)
(***************************************************************************)
EXTENDS Naturals, Sequences, FiniteSets

CONSTANTS
  Accounts,
  Plans,                  \* billing plans that code can seed
  ScriptPlans,            \* those seed_system_data.py seeds
  Credit, Interval,       \* monthly_token_credit and billing interval of each plan
  NewStatuses,            \* statuses a request may ask for
  AskedDates,             \* renewal dates a request may ask for, past ones included
  Subscribers,            \* subscription requests served at one time
  Seeders,                \* sessions that seed plans at one time
  Scans,                  \* issue_monthly_token_credits tasks run at one time
  NoAccount, NoPlan,
  MaxSubs,                \* bound: subscriptions of all accounts
  MaxPeriods              \* bound: billing periods

Statuses == {"TRIALING", "ACTIVE", "PAST_DUE", "CANCELED", "EXPIRED"}

ASSUME BillingAssumption ==
  /\ ScriptPlans \subseteq Plans /\ NewStatuses \subseteq Statuses
  /\ AskedDates \subseteq Nat \ {0}
  /\ Credit \in [Plans -> Nat \ {0}] /\ Interval \in [Plans -> Nat \ {0}]
  /\ NoAccount \notin Accounts /\ NoPlan \notin Plans
  /\ MaxSubs \in Nat /\ MaxPeriods \in Nat

VARIABLES
  catalogue,              \* seeded features and plans, and the plans linked to their features
  subs,                   \* account_subscriptions of each account, by id
  account,                \* monthly_token_credit and token_credit_next_reset_at
  request,                \* account and snapshot of each subscription request
  seeder,                 \* what each seeding session runs and its snapshot
  scan,                   \* accounts each monthly task has still to serve
  period,                 \* the present one
  paid                    \* history: due dates for which a monthly task paid each account
                          \* since a request last asked for the date

billingVars == <<catalogue, subs, account, request, seeder, scan, period, paid>>

Catalogue == [features : BOOLEAN, plans : SUBSET Plans, linked : SUBSET Plans]

\* `since` is history: how many subscriptions the request that made it had seen.
Subscription == [plan : Plans, status : Statuses, since : Nat]
AccountRow == [monthly : Nat, reset : Nat]     \* reset 0 is NULL

\* SubscriptionStatusService.is_active_like.
ActiveLike(s) == s.status \in {"TRIALING", "ACTIVE", "PAST_DUE"}

NoRequest == [account |-> NoAccount, seen |-> <<>>, row |-> [monthly |-> 0, reset |-> 0],
              plans |-> {}]
Unseeded == [features |-> FALSE, plans |-> {}, linked |-> {}]
NoSeeder == [kind |-> "none", seen |-> Unseeded]

\* The plan whose credit _latest_subscription gives an account, if any.
Grant(a) ==
  IF subs[a] = <<>> THEN NoPlan
  ELSE LET latest == subs[a][Len(subs[a])] IN
       IF ActiveLike(latest) THEN latest.plan ELSE NoPlan

\* What a task keeps of the accounts it has still to serve: the due date each was
\* listed for, and the plan each has in the snapshot of the task's latest query.
Listed(todo, due) ==
  [todo  |-> todo,
   due   |-> [a \in Accounts |-> IF a \in todo THEN due[a] ELSE 0],
   grant |-> [a \in Accounts |-> IF a \in todo THEN Grant(a) ELSE NoPlan]]

BillingInit ==
  /\ catalogue = Unseeded
  /\ subs = [a \in Accounts |-> <<>>]
  /\ account = [a \in Accounts |-> [monthly |-> 0, reset |-> 0]]
  /\ request = [r \in Subscribers |-> NoRequest]
  /\ seeder = [x \in Seeders |-> NoSeeder]
  /\ scan = [k \in Scans |-> [todo |-> {}, due |-> [a \in Accounts |-> 0],
                              grant |-> [a \in Accounts |-> NoPlan]]]
  /\ period = 1
  /\ paid = [a \in Accounts |-> {}]

(***************************************************************************)
(* Seeding: the script, and the GET and POST endpoints that run            *)
(* seed_default_plans.                                                     *)
(***************************************************************************)
StartSeed(x) ==
  /\ seeder[x].kind = "none"
  /\ \E kind \in {"script", "endpoint"} :
        seeder' = [seeder EXCEPT ![x] = [kind |-> kind, seen |-> catalogue]]
  /\ UNCHANGED <<catalogue, subs, account, request, scan, period, paid>>

Wanted(kind) == IF kind = "script" THEN ScriptPlans ELSE Plans

\* Both read feature_map before anything of the session is flushed: a plan is
\* linked only to features that an earlier session has committed.
Links(s) == IF s.seen.features THEN Wanted(s.kind) ELSE {}

\* Rows another session has inserted meanwhile break a unique constraint.
Conflict(s) ==
  \/ (Wanted(s.kind) \ s.seen.plans) \cap catalogue.plans # {}
  \/ (Links(s) \ s.seen.linked) \cap catalogue.linked # {}
  \/ s.kind = "script" /\ ~s.seen.features /\ catalogue.features

CommitSeed(x) ==
  LET s == seeder[x] IN
  /\ s.kind # "none" /\ ~Conflict(s)
  /\ catalogue' = [features |-> catalogue.features \/ s.kind = "script",
                   plans    |-> catalogue.plans \cup Wanted(s.kind),
                   linked   |-> catalogue.linked \cup Links(s)]
  /\ seeder' = [seeder EXCEPT ![x] = NoSeeder]
  /\ UNCHANGED <<subs, account, request, scan, period, paid>>

\* The conflict's error, a lost connection or a killed process: nothing stays.
SeedFails(x) ==
  /\ seeder[x].kind # "none"
  /\ seeder' = [seeder EXCEPT ![x] = NoSeeder]
  /\ UNCHANGED <<catalogue, subs, account, request, scan, period, paid>>

(***************************************************************************)
(* POST and PUT /billing/subscription.                                     *)
(***************************************************************************)
\* bound: subscriptions made so far
Made == Cardinality({s \in Accounts \X (1..MaxSubs) : s[2] <= Len(subs[s[1]])})

\* The authorization query opens the snapshot and loads the account.
StartRequest(r, a) ==
  /\ request[r].account = NoAccount
  /\ Made < MaxSubs
  /\ request' = [request EXCEPT ![r] = [account |-> a, seen |-> subs[a],
                                        row |-> account[a], plans |-> catalogue.plans]]
  /\ UNCHANGED <<catalogue, subs, account, seeder, scan, period, paid>>

\* Only ACTIVE rows looked for (mutant of Replaced).
ReplacedActive(q) == {i \in DOMAIN q.seen : q.seen[i].status = "ACTIVE"}

\* _active_subscriptions: the rows of the snapshot that are canceled.
Replaced(q) == {i \in DOMAIN q.seen : ActiveLike(q.seen[i])}

Canceled(q) ==
  [i \in DOMAIN subs[q.account] |->
     IF i \in Replaced(q) THEN [subs[q.account][i] EXCEPT !.status = "CANCELED"]
     ELSE subs[q.account][i]]

\* An UPDATE sets a column only when the value differs from the loaded one.
Assigned(new, loaded, stored) == IF new = loaded THEN stored ELSE new

\* The account keeps the first plan's credit (mutant of Subscribed).
SubscribedOnce(q, p, renews) ==
  [monthly |-> IF q.row.monthly = 0 THEN Credit[p] ELSE account[q.account].monthly,
   reset   |-> Assigned(renews, q.row.reset, account[q.account].reset)]

\* What create_subscription makes of the account's row.
Subscribed(q, p, renews) ==
  [monthly |-> Assigned(Credit[p], q.row.monthly, account[q.account].monthly),
   reset   |-> Assigned(renews, q.row.reset, account[q.account].reset)]

\* A date a request stores is to be paid, whatever was paid for it before.
Reopened(q, renews) == IF renews = q.row.reset THEN {} ELSE {renews}

\* create_subscription.  renews_at is the payload's or follows from starts_at, and
\* neither is validated: any date may come out.
CommitRequest(r) ==
  LET q == request[r] IN
  /\ q.account # NoAccount
  /\ Made < MaxSubs
  /\ \E p \in q.plans, s \in NewStatuses :
       /\ subs' = [subs EXCEPT ![q.account] =
                     Append(Canceled(q), [plan |-> p, status |-> s, since |-> Len(q.seen)])]
       /\ \E renews \in AskedDates \cup {period + Interval[p]} :
            /\ account' = [account EXCEPT ![q.account] = Subscribed(q, p, renews)]
            /\ paid' = [paid EXCEPT ![q.account] = @ \ Reopened(q, renews)]
  /\ request' = [request EXCEPT ![r] = NoRequest]
  /\ UNCHANGED <<catalogue, seeder, scan, period>>

\* No such plan, or an error.
RequestFails(r) ==
  /\ request[r].account # NoAccount
  /\ request' = [request EXCEPT ![r] = NoRequest]
  /\ UNCHANGED <<catalogue, subs, account, seeder, scan, period, paid>>

(***************************************************************************)
(* issue_monthly_token_credits.                                            *)
(***************************************************************************)
Due(a) == account[a].monthly > 0 /\ account[a].reset <= period

\* The reset date compared with < (mutant of DueAccounts).
DueBefore == {a \in Accounts : Due(a) /\ account[a].reset < period}

\* The task's query.
DueAccounts == {a \in Accounts : Due(a)}

StartScan(k) ==
  /\ scan[k].todo = {} /\ DueAccounts # {}
  /\ scan' = [scan EXCEPT ![k] = Listed(DueAccounts, [a \in Accounts |-> account[a].reset])]
  /\ UNCHANGED <<catalogue, subs, account, request, seeder, period, paid>>

\* The next reset left as it was (mutant of NextReset).
NextResetKept(a, p) == account[a].reset

\* _default_renews_at from the time of the payment.
NextReset(a, p) == period + Interval[p]

\* apply_monthly_credit and record_action_usage, whose commit stores both; the
\* query for the next account's subscription opens a new snapshot.  Whether the
\* account is still due is not asked again.
ServeAccount(k, a) ==
  LET p == scan[k].grant[a] IN
  /\ a \in scan[k].todo
  /\ IF p = NoPlan THEN UNCHANGED <<account, paid>>
     ELSE /\ account' = [account EXCEPT ![a].reset = NextReset(a, p)]
          /\ paid' = [paid EXCEPT ![a] = @ \cup {scan[k].due[a]}]
  /\ scan' = [scan EXCEPT ![k] = Listed(@.todo \ {a}, @.due)]
  /\ UNCHANGED <<catalogue, subs, request, seeder, period>>

\* The worker dies, or an exception ends the task: the accounts left are not served.
ScanFails(k) ==
  /\ scan[k].todo # {}
  /\ scan' = [scan EXCEPT ![k] = Listed({}, @.due)]
  /\ UNCHANGED <<catalogue, subs, account, request, seeder, period, paid>>

NextPeriod ==
  /\ period < MaxPeriods
  /\ \A x \in Seeders : seeder[x].kind = "none"
  /\ \A r \in Subscribers : request[r].account = NoAccount
  /\ \A k \in Scans : scan[k].todo = {}
  /\ period' = period + 1
  /\ UNCHANGED <<catalogue, subs, account, request, seeder, scan, paid>>

BillingNext ==
  \/ \E x \in Seeders : StartSeed(x) \/ CommitSeed(x) \/ SeedFails(x)
  \/ \E r \in Subscribers :
        (\E a \in Accounts : StartRequest(r, a)) \/ CommitRequest(r) \/ RequestFails(r)
  \/ \E k \in Scans : StartScan(k) \/ (\E a \in Accounts : ServeAccount(k, a)) \/ ScanFails(k)
  \/ NextPeriod

BillingSpec == BillingInit /\ [][BillingNext]_billingVars

\* Beat starts the task again and again, and a worker does not die every time.
Fairness ==
  /\ \A k \in Scans : WF_billingVars(StartScan(k))
  /\ \A k \in Scans, a \in Accounts : SF_billingVars(ServeAccount(k, a))
FairBillingSpec == BillingSpec /\ Fairness

--------------------------------------------------------------------------------
(***************************************************************************)
(* Properties.                                                             *)
(***************************************************************************)
BillingTypeOK ==
  /\ catalogue \in Catalogue
  /\ subs \in [Accounts -> Seq(Subscription)]
  /\ account \in [Accounts -> AccountRow]
  /\ request \in [Subscribers -> [account : Accounts \cup {NoAccount}, seen : Seq(Subscription),
                                  row : AccountRow, plans : SUBSET Plans]]
  /\ seeder \in [Seeders -> [kind : {"none", "script", "endpoint"}, seen : Catalogue]]
  /\ scan \in [Scans -> [todo : SUBSET Accounts, due : [Accounts -> Nat],
                         grant : [Accounts -> Plans \cup {NoPlan}]]]
  /\ period \in Nat
  /\ paid \in [Accounts -> SUBSET Nat]

\* Two subscriptions of an account are active-like at once only if the request that
\* made the later one had begun before the earlier one was committed: whatever
\* statuses a client asks for, a new subscription ends all its request could see.
OneActive ==
  \A a \in Accounts : \A i, j \in DOMAIN subs[a] :
    i < j /\ ActiveLike(subs[a][i]) /\ ActiveLike(subs[a][j]) => subs[a][j].since < i

\* The credit stored on the account, which decides whether the monthly task looks at
\* it at all, is that of its latest plan, unless that subscription was requested
\* while another was being made: then the unchanged column may not be written.
MonthlyMatchesPlan ==
  \A a \in Accounts : LET n == Len(subs[a]) IN
    n > 0 /\ subs[a][n].since = n - 1 => account[a].monthly = Credit[subs[a][n].plan]

\* Once a monthly task has paid an account for a due date, the account is never due
\* for that date again, whichever tasks and requests overlap and wherever a task dies,
\* unless a request asks for the date anew: a period is otherwise paid twice only by
\* tasks that listed the account before either had paid it.
PeriodPaidOnce == \A a \in Accounts : account[a].reset \notin paid[a]

\* A due account whose latest subscription is active-like gets its credit, although
\* tasks die, skip accounts and overlap with new subscriptions.
Owed(a) == Due(a) /\ Grant(a) # NoPlan
CreditArrives == \A a \in Accounts : Owed(a) ~> ~Owed(a)
================================================================================
