# Formal models of the chatbot backend

TLA+ models of the server in `backend/app`: a multi-tenant application that
receives Facebook and WhatsApp webhooks, answers them with AI replies, moderates
comments, publishes social posts, and meters AI usage in a token wallet.  The
models are translated from the code, file by file; TLC checks them on small
instances and TLAPS proves the safety properties for every instance.

Contents: 1 the system, 2 the modules, 3 the runs, 4 fairness, 5 the proofs,
6 what the code does otherwise than its documents say, 7 what is not modelled,
8 the plan.

## 1. The system

One MySQL database is shared by three kinds of process: the API (FastAPI), the
Celery workers of the queues `default`, `webhooks`, `sync`, `maintenance`,
`messages`, `comments` and `posts`, and Celery beat.  Nothing else is shared.  What
makes all of it hard:

* **Snapshots and lost updates.**  A session reads a REPEATABLE READ snapshot.
  SQLAlchemy writes, at commit, the absolute values of the attributes that were
  assigned *a value other than the loaded one*.  No row is ever locked and there
  are no version columns.  `autoflush=False` (`db/session.py:18`) hides a
  session's own changes from its queries, and `expire_on_commit=False` keeps
  loaded values across commits.
* **Several commits per operation.**  A request commits its row, then creates a
  job or sends a Celery task; a crash or a broker error falls in between.
* **At-most-once tasks, at-least-once jobs.**  Celery acknowledges a task when a
  worker takes it (`acks_late` is not set), so a dying worker loses it.  Jobs of
  `sync_jobs` are sent again on every beat tick until they change status.
* **Two retry mechanisms.**  `LoggedTask` retries a task on `ConnectionError` and
  `TimeoutError`; `sync_jobs` has its own attempts and back-off.

| Component | State | Operations | Talks to | Correct when |
|---|---|---|---|---|
| Token wallet and ledger | `token_ledger` credits with remaining tokens, `token_wallets` counters, `accounts.token_balance` | credit, debit (soonest expiry first), expire, recompute balance | called by billing, AI orchestration, the expiration task | every token is in one place; the soonest expiry goes first; counters and balance agree with the credits |
| Billing | plans, subscriptions, the account's monthly credit and reset date | seed, subscribe, buy, adjust, monthly task | ledger | one active subscription; the credit is the plan's; a period is paid once, and is paid |
| Sync jobs | `sync_jobs` rows, the `sync` queue | create (one row per key), dispatch, run, mark | every component that defers work | one row per key; never early; attempts exact; completion final; every job ends |
| Outbound delivery | status of messages and comment replies, delivery queues | queue, call the platform, store the outcome, create the retry job | inbox, moderation, AI replies, sync jobs | sent means accepted; failed means a retry exists; no unexplained duplicate |
| Social posts | `social_posts`, its two jobs, the `posts` queue | create, edit, approve, reject, schedule, publish, regenerate, delete; scan; publish | sync jobs, Facebook | only approved content is scheduled; what is published was accepted, once |
| Webhooks | `webhook_events`, messages, comments, conversations | ingest, process, store, escalate, create jobs | sync jobs, automation, inbox | an event is handled once and completely; abuse stays escalated; a message is answered once |
| Inbox, comment moderation | conversation status and assignment, comment status | reply, assign, change status, flag | delivery, webhooks | staff's and workers' writes do not undo each other |
| Automation, AI orchestration | workflows, `next_run_at`, generated drafts and replies, usage | edit, scan, run, generate, debit | sync jobs, ledger, delivery, posts | no due run is skipped; the next run is at the workflow's time; a job answers and pays once |
| AI configuration | agents, prompts and their versions | create, activate, delete, resolve | connections, AI orchestration | one active prompt per scope, and it is the one used |
| Authentication, accounts, users | users and their manager, memberships, onboarding keys, refresh tokens | register, login, refresh, logout, password, join, create and disable users | all endpoints | a session has one successor and ends when it is ended; a key is not over-used; admins follow their super admin |
| Platform connections | connection status, token, error; OAuth sessions in Redis or memory | create, connect, edit, sync, subscribe, disconnect, delete; errors of deliveries; expiry task | delivery, posts, webhooks | the status agrees with the row; an OAuth session connects one page |
| Schema migrations | the MySQL schema, `alembic_version` | upgrade, downgrade | all processes | the version tells the truth; a torn revision is noticed |
| Reporting, audit, observability | append-only logs | record, aggregate | all services | (no state others depend on) |

`PROJECT.json` lists the components with their files, and under "hazards" the
places in the code where a test would hardly reach what can go wrong.

## 2. The modules

### Token wallet: `TokenLedger`, abstract `CreditBook`

State: `rows` are the CREDIT entries of `token_ledger` (kind, tokens, remaining,
expiry, flag), `balance`, `credited` and `debited` the wallet's columns, `sess`
what each open session has read and assigned.  `spent` and `lapsed` stand for
what the appended DEBIT and EXPIRE entries record against each credit, and
`orphaned` for tokens removed with no entry; `crossed` marks a credit, or the wallet,
that a commit wrote from a value another session had changed since it was read.  One
action per database step:

| Action | Code |
|---|---|
| `BeginDebit`, `LoadCredits`, `Consume`, `CommitDebit` | `debit_tokens`: the snapshot and the amount, cut down to what is available (`debit_tokens` refuses nothing here), the second query, one turn of the loop, the entry, the counters and the commit |
| `FailDebit` | the 409 after the loop ran dry; in `execute_sync_job`, `mark_failed` then commits the session with the changes made so far |
| `BeginCredit`, `CommitCredit` | `_create_credit_entry` |
| `BeginExpire`, `CommitExpire` | `expire_tokens` |
| `Rollback` | `get_db` closing the session |
| `Tick` | time |

`SyncBalance` models `sync_account_balance` as it acts: with `autoflush=False` its
query does not see the session's own debit.  `CreditBook` is the promise: each
credit is issued once, and its tokens are debited or lapse, never more than were
issued, unless the credit is `doubtful`.  The ledger implements it (`BookSpec`) however
its sessions overlap, with the `crossed` credits for the doubtful ones: two debits of one
credit may both record their entries while one reduction is lost, and then its tokens
are spent twice.  A credit that is not crossed keeps every token in one place
(`Conserved`), and of every credit no token disappears (`NoTokenLost`).  The four
allocation types are two kinds here, those with an expiry and those without.

### Jobs: `SyncJobs`, abstract `JobBook`

`SyncJobs` has the table (`jobs`), the Celery messages by job and Celery retry
number (`queue`), the dispatcher's list (`batch`) and the task each worker runs
(`exec`, with the row as the worker loaded it).  `Create` is `create_job`, `Scan`
and `Send` are `dispatch_due_sync_jobs`, `Take` / `MarkRunning` / `Handle` /
`Finish` are `execute_sync_job`, with `Receive`, `Complete` and `Fail` (the
latter with or without Celery's retry) as their parts, `Crash` is a worker's
death, `Elapse` is time passing `scheduled_for` or `retry_after`.  `overlapped` records
the jobs that two workers have held at once.  `Written` is
SQLAlchemy's rule that an unchanged attribute is left out of the UPDATE: why a
late failure may leave a COMPLETED row alone.

`JobBook` is what the other components may rely on: a key has one row for ever,
and its handler runs only once it is due, any number of times.  `SyncJobs`
implements it under the mapping `book`.  `Posts` is built over `JobBook`, and
`PostJobs` puts the table in the book's place; `Delivery` composes with `SyncJobs`
itself.

### Outbound items: `Delivery` (EXTENDS `SyncJobs`)

One module for messages and comment replies, whose tasks have the same shape.
`Compose` / `Submit` / `SubmitFails` are the request, `PickUp` / `CallPlatform` /
`CallBreaks` / `Store` / `ScheduleRetry` the delivery task, `HandleRetry` the
`retry_failed_send` job, `CourierDies` a crash.  `CallBreaks` is a transport
error (httpx), which none of the retried exception types covers.

### Posts: `Posts` (EXTENDS `JobBook`)

`LoadPost` and `CommitPost` are the two halves of every request that edits the
row, `Allowed` and `Updates` the guard and the assignments of each operation,
followed by `CreateScheduleJob` or `SubmitPublish`; `ScanPosts` is the beat scan;
`TakeTask` / `CallFacebook` / `CallBreaks` / `ApplyResult` / `CreateRetryJob` are
`publish_social_post`.  `cleared`, `excused` and `crossed` are history variables: the
post's content has been approved, there was a reason for it to go out again, a request
has written it while another had it loaded.

### Posts with their jobs: `PostJobs` (EXTENDS `SyncJobs`, INSTANCE of `Posts`)

A post whose two jobs are rows of the table.  The four steps that create or handle a
job are written against the rows (`CreateScheduleJob`, `ScanPosts`, `CreateRetryJob`,
`HandlePost`); the others are those of `Posts` and of `SyncJobs` as they stand.  The
instance sees the table through `book`, and counts a run when a handler is called
(`handled`): `SyncJobs` counts it when the job is marked RUNNING, after which a worker
may still die.  `stalled` records that what was to carry a scheduled post on came to
nothing: a request or a publish task failed half way, or a job was asked for under a
key that had its row.

### Webhooks and conversations: `Webhooks`

`CheckEvent` / `StoreEvent` / `SubmitEvent` / `DeliveryFails` are the endpoint
and `ingest_event` with its unique key; `TakeEvent`, then for each item `Skip` or
`LookUp` / `Store` / `ListAnswers` / `QueueJob` / `ItemDone`, and `Finish` or `Ignore` are
`process_webhook_event`; `WorkerFails` is `mark_failed` (which commits a
conversation flushed before the exception) and `WorkerDies` a crash;
`OpenConversation` / `CommitConversation` are the inbox requests that write the
same status.  Neither `external_message_id` nor a customer's conversation is
unique in the schema, so a row is identified by its item and by the worker that
inserted it: two workers can insert the same message, and the model lets them.
`Called` is what one list of the workflows may call for: a job for each active workflow
whose filters match, or the default reply, or nothing.  `QueueJob` creates one of these
jobs and commits it, so a worker may fail between two of them.  `raced` marks a message
that was stored while another worker, having found no row of it, was about to store it
too.  A comment's own status (FLAGGED) is left to the moderation model.

### Billing: `Billing`

`catalogue`, `subs`, `account` are the plans, the subscriptions in the order of
their ids, and the two columns of the account the monthly task reads.
`StartRequest` / `CommitRequest` are `create_subscription` on either side of its
reads, `StartScan` / `ServeAccount` / `ScanFails` are `issue_monthly_token_credits`,
which commits account by account, `StartSeed` / `CommitSeed` the two ways of seeding
plans.  The next reset a request stores is any date (`AskedDates`) or follows from the
plan, because neither `renews_at` nor `starts_at` is validated.  A credit is recorded by
the due date it was paid for (`paid`), until a request asks for that date anew
(`Reopened`); what it does to the ledger is a credit session of `TokenLedger`.  A billing period is the unit of
time (`period`, `NextPeriod`).  The module's `Init`, `Next`, `Spec` and `TypeOK` begin
with `Billing`, and those of `Prompts` with `Prompt`: one module of proofs extends
`Billing` beside `TokenLedger`, and one `Prompts` beside `Automation`.

### Automation and generated replies: `Automation`

One scheduled workflow with its edits (`LoadEdit`, `CommitEdit`), the due scan, which
creates the job and then stores the next time (`LoadDue`, `QueueRun`, `StoreNext`),
and the jobs that run it or answer an item: `TakeJob`, `Generate`, `Debit` or
`DebitRefused`, `StoreResult`, `Complete`.  The steps of a job are separate commits,
so it may die after the reply is sent and before it is paid.  `mixed` records that a
session stored values computed from a row another had changed, `excused` that a job
had a reason to generate again.

### Users, sessions and keys: `Accounts`

A request is its checks (`Begin...`, with the rows it keeps) and its commit
(`Commit...`); registration with a key commits twice, and between the two it is a
login.  `Cascade` is the disabling of a super admin's admins, `Issue` the new token,
`JoinWrites` the use of a key.  `crossed` has the rows a request wrote after another
request it overlapped had committed what it read.

### Connections and OAuth: `Connections`

Every operation loads a connection, may call the platform, and stores what differs
from what it loaded (`Store`).  `SyncStatus`, `Working` and `Failed` are the three
ways the code derives a status.  An OAuth session has a copy in Redis and one in
memory (`Saved`, `Got`, `Deleted`), because every call falls back to memory when
Redis fails.

### Prompts: `Prompts`

Prompts of one type, their scopes (agent or none, connection or none), versions and
activation; `Resolved` is `resolve_prompts`.  `CommitDelete...` follows the ORM's
cascades: an agent takes its prompts with it, a connection leaves them behind
without a connection, which makes them defaults of the account.

### The schema: `Migrations`

The thirteen revisions as sequences of DDL statements, up and down, with what MySQL
refuses: a table whose reference is missing, an index a foreign key needs, a table
others refer to.  `Execute` commits one statement; only `Stamp` changes the version.

## 3. The runs

Passing runs check every behaviour of a bounded instance:

| Run | Instance | Distinct states | Shows |
|---|---|---|---|
| `ledger` | 2 credits of 2 tokens, 2 clock values, two sessions that overlap (a job and a request) | 1,577,930 | `NoTokenLost`, `Conserved`, `WalletIdentity`, `ExpiredIsEmpty`, `ExpiringFirst`, and that the ledger implements `CreditBook` |
| `sync_jobs` | one job, one worker, 3 attempts, 2 Celery retries, 2 messages | 14,627 | `ImplementsBook`, and `JobsFinish` |
| `delivery` | one item, two couriers, two job workers, all faults | 1,409,456 | `SentIsFinal`, `FailureHasRetry`, `SendsBounded`, `DuplicateExplained`; of the retry job `AttemptsCounted`, `AttemptsExact`, `GivenUpWhenExhausted`, `CompletedIsFinal` |
| `posts` | one post, two requests that overlap, two publishers, all faults | 1,862,696 | `ScheduledWasApproved`, `PublishedWasAccepted`, `DuplicateExplained` |
| `webhooks` | two events that share a message and a comment, two workflows, two deliveries, two workers, an agent, all faults | 2,686,232 | `HandedOverOnce`, `ProcessedIsComplete`, `AnsweredOnce`, `AbuseEscalates` |
| `billing` | two accounts, a monthly and a yearly plan, two subscriptions, two requests, two monthly tasks, one seeder, two periods, a request may ask for the second one | 310,866 | `OneActive`, `MonthlyMatchesPlan`, `PeriodPaidOnce`, and `CreditArrives` |
| `automation` | one workflow, a day of 2 steps, 3 clock values, one edit, one manual run, one item, two workers, 2 job runs | 404,280 | `SlotRespected`, `RunNotSkipped`, `SecondDraftExplained` |
| `accounts` | a super admin, two admins, one account, one key, three tokens, two requests at once, five in all | 220,309 | `KeyUses`, `SessionsEnd`, `AdminFollowsManager` |
| `connections` | two rows, one page, two tokens, one OAuth session, two operations at once, five in all | 322,179 | `StatusAgrees`, `SessionUsedOnce` |
| `prompts` | three prompts, an agent, a connection, two requests at once, four in all | 182,419 | `OneActive`, `ActivatedIsUsed` |
| `migrations` | the whole chain, two commands | 4,784 | `TablesMatchVersion`, `TornStaysTorn`, `OnlyLastTwoUndone` |

One run expects a violation, `ledger_balance`; see section 6.

`PostJobs` is there to be proved about, and is not among the runs: its steps are those of
`Posts` and of `SyncJobs`, which have runs of their own.  `PostJobs.cfg` checks
`ScheduledIsCarried` and `PostsOverBook` of it for one request, one publisher and one
worker, with all faults, 2 attempts and one Celery retry (337,276 states, no error).  Its
constraint `Rescheduled` follows a post that needs no approval, is scheduled, rejected
and deleted, and is published at once only before it has a job, until the task is
queued; the theorems have no such bound.

The bounds, and why they are enough to be interesting:

* In `ledger` two credits of 2 tokens give the debit loop a first credit, used up,
  and a last one, used in part (requests of 1 and 3); they have the same expiry, or one
  or both have none, and the clock passes it (`Life` = 1 tick).  Two sessions
  give every overlap of a pair.  `ledger_balance` needs one.  `MaxColumn` = 20 is above
  every balance these instances reach.
* `MaxRuns` = 30 is never reached in `sync_jobs`: attempts and Celery retries run
  out first.  `MaxQueued` = 2 lets a job's duplicate wait behind it.  Its one worker is
  what liveness can be checked with in minutes; several workers are in `delivery`,
  and the refinement is proved for any number.
* In `delivery` two job workers and two couriers let the retry overtake the first
  delivery, and `MaxRuns` = 3 lets the retry job run twice and once more.  The jobs'
  own properties are checked of the retry job, where two workers take its duplicates.
* In `posts`, `MaxTasks` and `MaxRuns` of 1 bound the tasks waiting and the job
  runs; the two publishers hold tasks of their own, so up to three publications
  are under way at once.  The constraint `QuietOverlaps` lets two requests overlap
  while no publish task waits or runs and the post is not out, follows a post on which
  they crossed until Facebook is called, and any post until Facebook has accepted it
  twice; the theorems have no such bounds.
* In `webhooks`, the events share a message (the message check) and a comment
  that was edited to be abusive, and one has an abusive message of its own.  Two
  workflows for messages give a worker two jobs to fail between, or one of the two, or
  none; comments have the default reply or nothing.  An agent's request leads to
  RESOLVED (`Requested`), the status from which a worker reopens a conversation.
* In `billing`, two periods and a yearly plan that lasts two tell a payment of this
  period from one that was asked for before; the date a request may ask for
  (`SecondPeriod`) lies ahead in the first period and is already due, perhaps already
  paid for, in the second; two tasks and two requests give every
  overlap of a pair.  New subscriptions are PAST_DUE, the active-like status a code
  path could most easily forget, or CANCELED.
* In `automation`, a day of two steps has two local times, and three clock values
  reach the next day.  Two job runs are two runs of one job, or one of two.
* In `accounts`, `connections` and `prompts` the bound `MaxServed` counts operations:
  each pair that can overlap needs two or three before it (a user, a membership, a
  key; a connection and its error; a scope with an active prompt), and five or four
  leave room for one after it.  `accounts` was also checked once with six (1.8
  million states).  `MaxUses` = 1 makes the second use of a key one too many.

Symmetry is used for workers, couriers, publishers, deliverers, commands, requests,
admins, prompt ids and access tokens, which the actions and the properties treat
alike, and in no run that checks liveness.  Deadlock is not checked: these systems
may stop (an answered customer, an exhausted bound); `migrations`, which may not,
checks it.

The type invariant of every module is proved (section 5; of `Migrations` it is the part
`MigrationTypes` of its invariant) and not listed in the configurations.

Every passing run has the overlaps of its component, `sync_jobs` apart.  Where a property
excuses what an overlap leaves behind, it is because the code does not keep it there, and
TLC finds the counterexample when the excuse is dropped:

* Two debits of one credit both record their entries while one reduction is lost, and
  an expiration and a debit undo each other.  Without `crossed`, `Conserved`,
  `ExpiredIsEmpty`, `WalletIdentity` and `BookSpec` fail; `NoTokenLost` and `ExpiringFirst`
  need no excuse.  A session that overlaps others and writes different credits crosses
  none.
* Two workers of the `sync` queue that hold the same job lose a count, give it up early
  or bring it back.  Without `overlapped`, `AttemptsExact`, `GivenUpWhenExhausted` and
  `CompletedIsFinal` fail; `AttemptsCounted` needs no excuse.
* An edit committed between the check and the commit of a schedule leaves a scheduled
  post with content nobody approved.  Without `crossed`, `ScheduledWasApproved` fails
  in six states.
* Two workers that both look for a message before either has stored it make two rows of
  it, and both are answered: `AnsweredOnce` leaves out `raced`.
* A scheduled post may be forgotten: the three reasons `ScheduledIsCarried` names are
  those the code has.  The third, a second schedule that finds the row of the first,
  is described in section 6; the theorem says that there is no fourth.
* `AbuseEscalates` excuses a conversation an agent has ever written: a worker that
  loaded it RESOLVED writes OPEN over an escalation committed meanwhile.
* `OneActive` and `MonthlyMatchesPlan` of `Billing` speak of a subscription whose
  request had seen all others (`since`); `PeriodPaidOnce` lets two tasks that listed
  an account together pay it twice, and a request ask for a date that has been paid
  (`Reopened`), which the code takes as it comes.
* `mixed`, `excused`, `crossed`, `moved`, `loose` and `leftover` are the same idea in
  `Automation`, `Accounts`, `Prompts` and `Connections`: history variables that mark
  exactly the rows an overlap, a hand-set status or a failed deletion has touched.
  Each property holds of every other row, and fails without the excuse.

## 4. Fairness

Only the liveness properties use it: `JobsFinish` (`FairJobSpec`) and `CreditArrives`
(`FairBillingSpec`).

* Beat runs `dispatch_due_sync_jobs` every minute and the monthly task daily
  (`celery_app.py`): weak fairness of `Scan` and `StartScan`.
* Time passes: weak fairness of `Elapse`.
* A worker that has begun a step goes on, unless it dies: weak fairness of the
  steps inside a task.
* A message that waits is sent and taken in the end, however often others come
  before it: strong fairness of `Send` and `Take`, because the bounds on the queues
  and the other tasks may disable them in between.
* A monthly task may die after any account, but does not die before the same account
  every time: strong fairness of `ServeAccount`.  Without it a task that always dies
  on the first account would starve the second for ever.
* Nothing obliges a request to begin, a fault to happen, or a platform to accept.

`JobsFinish` excuses a job whose task a worker lost: the row stays RUNNING and
`list_due_jobs` never selects it.  `Posts` assumes that a due job's handler runs
at least once, which is what `JobsFinish` says of `SyncJobs` when no task is lost.

## 5. The proofs

TLAPS checks the following for every value of the constants that satisfies the
assumption its module names (`LedgerAssumption`, `JobAssumption`, `DeliveryAssumption`,
`PostAssumption`, `WebhookAssumption`, `BillingAssumption`, `AutomationAssumption`,
`PromptsAssumption`, `ConnectionsAssumption`, `AccountsAssumption`; `Migrations` needs
none): any number of credits, sessions, jobs, workers, items, couriers, requests,
publishers, events, messages, accounts, plans, connections, users, keys, tokens, prompts
and commands.  `DeliveryAssumption` has finitely many workers and
couriers and `WebhookAssumption` finitely many requests that deliver, since the arguments
count them.  No theorem assumes that sessions, workers or requests do not overlap.  The
three about `PostJobs` have a hypothesis of their own, `PostTable`, which leaves the table
to one post.

`TokenLedger_proofs`:

* `TypeCorrect`: `Spec => []TypeOK`.  In particular remaining tokens never go
  below zero, though the code subtracts from a value it loaded long before.
* `NoTokenVanishes`: `Spec => []NoTokenLost`.
* `ExpiringCreditsFirst`: `Spec => []ExpiringFirst`.

None of the three is inductive.  `IInv` adds `AllocOK`, how far a debit's loop
has come (it has taken only from selected credits, in the query's order, and only
the last one in part); `RowsOK`, tokens are only in rows that exist; and
`SnapshotsOK`, which carries the argument: what any open snapshot shows of a
credit, plus what has been recorded against it, covers the credit.  So a session
that overwrites `remaining` with its snapshot less its own allocation, and
records that allocation, still leaves the credit covered, whatever it undoes.

What an overlap may undo is excused by `crossed`:

* `TokensConserved`: `Spec => []Conserved`.
* `ExpiredHoldsNothing`: `Spec => []ExpiredIsEmpty`.
* `CountersAgree`: `Spec => []WalletIdentity`.
* `LedgerImplementsBook`: `Spec => BookSpec`, the refinement of `CreditBook`, step by step.

`FreshInv` is `IInv` with the first two.  A commit crosses a credit that is no longer
stored as its snapshot shows it; what it writes to any other is what is there less
what it records, and a flagged credit is empty, so it is in nobody's loop.  A debit's commit is a
debit of the book by exactly its allocation.  The commit of a job whose debit failed
stores the reductions but no entry: the book sees at most that credits become doubtful,
and `Conserved` counts the tokens as orphaned.

`WalletParts` adds that what a debit's loop has taken and what it still needs are
together what was asked (`AsAsked`).  A commit that crosses neither a credit nor the
wallet then changes the counters by what it changes the credits.
`WalletIdentity` speaks of sums over the credits, which are `SumFunction`s, folds over a
finite set.  `SumIsFold` gives the recursive equation of such a sum, and `SumSplits` and
`SumOfOne` say that it splits as its function does, and that a single value is its own sum.
The library's induction schemes take an operator as a parameter, so these lemmas rest on
an induction of their own, `PickInduction`: of the sets for which a fact failed one would
be smallest, since the numbers are well-founded, and the equation contradicts it.

`Delivery_proofs` has the jobs first, then the items and the posts that use them.  Of `SyncJobs`:

* `JobsTypeCorrect`: `JobSpec => []JobTypeOK`.
* `AttemptsNeverOvercount`: `JobSpec => []AttemptsCounted`.
* `ImplementsTheBook`: `JobSpec => Book!BookSpec`, by mapping initial states and
  every step, with `IInv` for the guards of the abstract actions.

`IInv` adds that every job in the dispatcher's list, the queue or a worker's
hands has a row and is due (so a handler never runs early), and that the row a
worker holds counts no more attempts than runs that started (so an absolute write
of `attempts` cannot over-count).

For jobs that no two workers have held at once (`overlapped`):

* `AttemptsCountRuns`: `JobSpec => []AttemptsExact`.
* `GivenUpLate`: `JobSpec => []GivenUpWhenExhausted`.
* `CompletedStays`: `JobSpec => CompletedIsFinal`.

`SoloInv` says of such a job that one worker holds it at most (`OneHolder`), that the row
this worker holds has the stored status and attempts (`HeldAsLoaded`), that it is not
COMPLETED, and that it is RUNNING from `mark_running` on.  So what the task stores it
has computed from what is stored, and SQLAlchemy's omission of unchanged columns is
harmless.  The workers of other jobs, and those that held this one before, do not matter.

Of `Delivery`:

* `UsesTheJobs`: `Spec => JobSpec`; every step is one of `SyncJobs` or leaves it alone,
  so what is proved of the jobs carries over (`RetriesNeverOvercount`).
* `DeliveryTypeCorrect`: `Spec => []TypeOK`.
* `SentStaysSent`: `Spec => SentIsFinal`.
* `FailureHasRetryAlways`: `Spec => []FailureHasRetry`.
* `SendsBoundedAlways`: `Spec => []SendsBounded`.
* `DuplicateExplainedAlways`: `Spec => []DuplicateExplained`.

`DInv` is the jobs' `IInv` and five more parts.  `CourierOK` and `OneCarrier`: until
its retry job exists an item is queued and in one place (a request, one message of the
queue or one courier), and once it exists every courier has loaded it as failed.
`Retried`: the job exists only for an item that has been called.  `Explained`: an item
that was neither shared nor dropped has been accepted at most once, and then its status
says so or its only courier is about to.  `Bounded` counts the sends that have been
made and those still to come, from the row, the request, the queue, the couriers and
the running handlers: together they are at most one more than the runs of the job,
because only a new item and a started handler add to them.

Of `PostJobs`, for a table that has the post's two jobs (`PostTable`) and any number of
requests, publishers and workers:

* `PostsUseTheJobs`: `PostJobsSpec => JobSpec`.
* `PostsRunOverTheTable`: `PostJobsSpec => PostsOverBook`, the refinement of `Posts` over
  `JobBook`: `EnsuredBook`, `HandledIsDue` and `MachineryBook` say what a creation, a
  handler and everything else do to the book, and with them each step is one of `Posts`.
* `ScheduledIsCarriedAlways`: `PostJobsSpec => []ScheduledIsCarried`.

`CarriedInv` is sharper than the property in two places.  An open job carries the post
only while no worker has sent the task and has yet to store that (`JobCarries`), because
the job is then completed; and a publisher carries it only if it did not see it FAILED,
because a refusal then changes nothing.  It adds what a request may still write:
only `schedule` and `publish` make a post SCHEDULED, and they have a job or a task to
create after it.

`TokenLedger_proofs`, of `Billing`:

* `BillingTypeCorrect`: `BillingSpec => []BillingTypeOK`.
* `OneActiveUnlessOverlapped`: `BillingSpec => []OneActive`.
* `CreditOfLatestPlan`: `BillingSpec => []MonthlyMatchesPlan`.
* `PaidDatesAreOver`: `BillingSpec => []PeriodPaidOnce`.

`BillingInv` adds `SnapshotHolds`: subscriptions only grow and an ended one stays ended, so
what a request has seen is a prefix of what there is in which nothing has come back
to life; and while no other has been added, the credit it loaded is still stored.
That is what makes canceling the seen rows enough, and leaving out an unchanged
column harmless.  `PaidInThePast` says that every listed and every paid date is over,
so the next reset a task stores, which lies in the future, is none of them; a date a
request stores may be one, and is then no longer counted as paid.

`Connections_proofs`:

* `TypeCorrect`: `Spec => []TypeOK`.
* `StatusAgreesAlways`: `Spec => []StatusAgrees`.
* `SessionUsedOnceAlways`: `Spec => []SessionUsedOnce`.

`IInv` adds `Loaded`: the row of an operation that is alone is as it loaded it, so
storing the columns that differ stores the whole value it computed; a row written
otherwise is `loose`.  `UsedIsSpent` says that a session that has connected a row is
either about to be deleted or has no copy left and no lone request that could bring
one back.  Six lemmas take the actions in groups (a row's operations, deletion, a new
row, the two upserts, the session store, the forgetting), and `InductiveInv` joins
them.

`Accounts_proofs`:

* `TypeCorrect`: `Spec => []TypeOK`.
* `KeyUsesAlways`: `Spec => []KeyUses`.
* `AdminFollowsManagerAlways`: `Spec => []AdminFollowsManager`.
* `SessionsEndAlways`: `Spec => []SessionsEnd`.

`IInv` says what each open request still knows while it is alone: `KeyLoaded`, the
count of a key it will add one to; `StatusLoaded`, the status of the users it will
change, among them every admin of a super admin it disables; `AdminLoaded`, that the
super admin who creates an admin is active; `RefreshLoaded`, that nobody has exchanged
or ended the token it exchanges.  `TokensOK` is `SessionsEnd` without the counting: a
live token has no successor, and two successors of a token are one.  Every commit is
reduced to three facts (`Settles`: the other requests go on, and only those that read
nothing it wrote stay alone; the users' step; the tokens' step), which `CommitInv`
joins.

`Posts_proofs`:

* `TypeCorrect`: `Spec => []TypeOK`.
* `PublishedOnlyAccepted`: `Spec => []PublishedWasAccepted`.
* `SecondPublicationExplained`: `Spec => []DuplicateExplained`.
* `SchedulesApproved`: `Spec => []ScheduledWasApproved`.

`OnceParts` is the argument of the third: while nothing excuses a second publication one
publisher is at work, and a post that went out is about to be stored as published or is
stored so, and then nobody has loaded it since.  `ApprovalParts` is that of the last, and
says of a post that is not `crossed`: if it is APPROVED or SCHEDULED and needs approval
it has been approved since its last edit, and any request that is about to schedule it has
seen it so.  Until that request commits only publishers write the post, and they change
neither its content nor its approval.

`Webhooks_proofs`:

* `TypeCorrect`: `Spec => []TypeOK`.
* `EventHandedOverOnce`: `Spec => []HandedOverOnce`.
* `ProcessedEventsComplete`: `Spec => []ProcessedIsComplete`.
* `MessagesAnsweredOnce`: `Spec => []AnsweredOnce`.
* `AbuseStaysEscalated`: `Spec => []AbuseEscalates`.

Each rests on the types and parts of its own.  `HandParts`: nothing is done about an
event before it is stored, and an event in a worker's hands is PROCESSING and in no
other's.  `CompleteParts`: an item the worker has left behind has its row, and of the
rows the event wrote last only the one in hand is undecided.  `AnswerParts`: a message
that is not `raced` has at most one row, because a worker about to store one has found
none (`LookedFirst`); the worker that stored the row is the only one to create its jobs,
once, from one list (`Unanswered`), however far through the list it has come.
`EscalateParts`: a conversation no agent has written is OPEN or ESCALATED; a worker that
saw it ESCALATED still finds it so, and leaves it so because the value does not change;
one that saw no conversation is about to create its own.  `Preserved` says what a step
may do to the conversations, and the two steps that write one (`StoreEscalates`,
`FailEscalates`) are reduced to it, as is an agent's (`CommitEscalates`).

`Automation_proofs`:

* `TypeCorrect`: `Spec => []TypeOK`.
* `NextRunAtSlot`: `Spec => []SlotRespected`.
* `NoRunSkipped`: `Spec => RunNotSkipped`.
* `SecondDraftHasReason`: `Spec => []SecondDraftExplained`.

`NextRunTime` shows that `_compute_next_run_at` always finds its time, for a day of any
length.  `EditsAgree` says that the row an update is about to store agrees with itself;
`OnceOK`, of a job that nothing excuses, that at most one worker runs it, that a worker
which has just loaded it finds no draft, and that a stored draft belongs to a completed
job or to the worker that is about to complete it.

`Automation_proofs`, of `Prompts`:

* `PromptTypeCorrect`: `PromptSpec => []PromptTypeOK`.
* `OneActiveAlways`: `PromptSpec => []OneActive`.
* `ActivationIsUsed`: `PromptSpec => ActivatedIsUsed`, an action property: after the
  commit that activates a prompt, `resolve_prompts` finds that prompt for its scope.

`PromptInv` adds `RequestsOK`, that a request which is alone in its scope has seen the
prompts of the scope as they are stored: the siblings it deactivates are then all there
are.  `VersionsBounded`, that no version exceeds the number of requests served, gives any
prompts in use a newest one (`NewestExists`), so that `Resolved` never comes back empty
for a scope with an active prompt.

`Migrations_proofs`:

* `VersionTellsTables`: `Spec => []TablesMatchVersion`.
* `TornNeedsRepair`: `Spec => []TornStaysTorn`.
* `OldRevisionsStay`: `Spec => OnlyLastTwoUndone`.

The thirteen revisions are data, and the proofs begin with what they need of it, in
`Revisions`: the kinds and tables of each one's statements (`Parts`), and which come first
and last.  From it follow what is said of `Opening`, the first statement that cannot be
repeated, of `Closing`, with which a downgrade starts (`Undoing`), and that only the last
two revisions' closing statements can be dropped.  `MigrationInv` then says of each command how far it can
have come.  `UpFits`: past its opening statement an upgrade is at the revision after the
recorded one, and what it made is in the schema.  `OneUp`: only one command is past it,
because a second meets what the first has made.  `DownFits`: a downgrade gets past its
first statement in the last two revisions only, and not a second time after it was torn.
`TornFit`: the opening statement of a revision torn upward is in the schema, so every
later upgrade stops there; the closing one of a revision torn downward is missing, which
stops every later downgrade.  As in the model, upgrades may overlap, and a downgrade runs
alone (`DownAlone`).

The theorems of `PostJobs` state properties that no listed run checks (section 3).

Only model-checked: liveness (`JobsFinish`, `CreditArrives`), which needs ENABLED and
fairness.  `ledger_balance` is a counterexample and has nothing to prove.  Every invariant
and every action property of the other runs is proved.

## 6. What the code does otherwise

`ledger_balance` is a run whose counterexample is a short legal history: after a
debit, the stored balance is the total from before it, because the recomputation
queries rows that are not flushed.  The repository's README says that debits are
applied to the account balance.

The models show these, too; each was found as a short counterexample, and is kept
here in prose:

| Where | What happens | Against |
|---|---|---|
| `inbox_service.py:171` | a message whose task the broker refused stays queued for ever | the comment at `inbox_service.py:174`: "so a worker can retry once the broker is healthy" |
| `workers/base.py:18` | a delivery that ends on an httpx transport error is not retried and keeps QUEUED | README.md:606: retry and back-off for transient failures |
| `workers/post_tasks.py:19` | a publish task still waiting publishes a post that has meanwhile been rejected or edited to need approval | README.md:316: such posts cannot be published until approved |
| `post_service.py:167` | schedule, reject, approve, schedule: the second schedule finds the job of the first, and the post stays SCHEDULED | README.md:605: scheduled jobs scan due posts |
| `webhook_processing_service.py` | with active workflows of which none matches, a message gets no job at all | README.md:128: then the default AI reply job is created |
| `seed_system_data.py` | the first seed leaves the plans without feature links, because it looks the features up before they are flushed; the second adds them | README.md:376: the seed is idempotent |
| `platform_connection_service.py:122` | deleting a connection turns its prompts into defaults of the account, next to one that is active there | README.md:230: resolution by agent, connection, account |
| `20260409_000011...py:345` | the downgrade of the eleventh revision, as of every older one, fails on MySQL (error 1553): it drops an index a foreign key needs | the revisions each define a downgrade |

## 7. Not modelled, and caveats

* The models assume MySQL with InnoDB's default isolation.  Two ORDER BY clauses
  use `.nullslast()` (`token_consumption_service.py:74`, `post_service.py:43`),
  which MySQL rejects and the tests' SQLite accepts; the ordering is modelled as
  it is written.
* `ensure_wallet` seeds the balance from `accounts.token_balance` with no ledger
  entry: `Opening`.  The negative branch of `manual_adjustment`, `assign_role`,
  `revoke_onboarding_key` and `create_scheduled_post_publish_job` have no caller.
* The outcome of a platform call is a choice between accepted, refused and broken;
  request formats, payload parsing and prompt texts are left out.
* Text moderation is the constant `Abusive`; keyword filters of workflows are the
  choice of `Called`.
* `accounts.is_active`, on which the monthly task filters, is never cleared by any code,
  and is left out of `Billing`.
* An uncommitted INSERT and its unique key are one step at the commit.
* In `Connections` an access token expires when the task says so: the expiry time
  comes from the metadata a client sends, and no code of the server writes it.
* The audit log commits after the operation it records and changes nothing the models
  keep; where a usage record's commit falls between two steps of another component,
  they are two actions there.
* Packages, purchases and transaction rows of billing, knowledge sources and FAQ
  entries, permission lists and the checks on who may manage whom are single-row edits
  or lookups that nothing modelled depends on.
* Which message a generated reply answers (`orchestration_service.py:97`) is not
  modelled: `Automation` counts replies.
* Reporting, the HTTP layer, configuration and the frontend have no state the
  properties could depend on.

## 8. The plan

Done, in the order of importance: `TokenLedger` / `CreditBook`, `SyncJobs` /
`JobBook`, `Delivery`, `Posts`, `PostJobs`, `Webhooks`, `Billing`, `Automation`, `Accounts`,
`Connections`, `Prompts`, `Migrations`, and the proofs of all of them.

What would come next:

* `Billing` and `Automation` composed with the credit and debit sessions of
  `TokenLedger`, in place of the due date and the single debit step.
* The message a reply answers, once the code says which it should be.
