------------------------------ MODULE Migrations ------------------------------
(***************************************************************************)
(* The Alembic chain of the database, as `alembic upgrade head` and        *)
(* `alembic downgrade -1` run it on MySQL.                                 *)
(*                                                                         *)
(* MySQL commits every DDL statement by itself, so a command that stops    *)
(* half way leaves the statements it executed behind; only the UPDATE of   *)
(* alembic_version at the end of a revision says that it is applied.       *)
(*                                                                         *)
(* Of a table the model keeps its existence, its foreign keys, the indexes *)
(* on their columns and the columns later revisions add: what a statement  *)
(* can fail on.  Other columns and indexes are left out.                   *)
(***************************************************************************)
EXTENDS Naturals, Sequences, SequencesExt

CONSTANT Runners          \* alembic commands that may run at once

VARIABLES
  schema,                 \* objects that exist in the database
  version,                \* alembic_version: revisions applied, 0 before the first
  runner,                 \* what each command is doing
  torn                    \* history: revisions a command left half applied or half undone

vars == <<schema, version, runner, torn>>

Statement(kind, on, col) == [kind |-> kind, on |-> on, col |-> col]

\* create_table, then create_index for each column with a foreign key.
Table(t, keys) ==
  <<Statement("table", t, "id")>> \o [i \in DOMAIN keys |-> Statement("index", t, keys[i])]
Columns(t, names) == [i \in DOMAIN names |-> Statement("column", t, names[i])]

(***************************************************************************)
(* The revisions.                                                          *)
(***************************************************************************)
Foundation ==
  Table("accounts", <<>>) \o Table("users", <<>>)
  \o Table("memberships", <<"account_id", "user_id">>)
  \o Table("onboarding_keys", <<"account_id">>)
  \o Table("refresh_tokens", <<"user_id">>)

PlatformConnections == Table("platform_connections", <<"account_id">>)

AiConfiguration ==
  Table("ai_agents", <<"account_id", "platform_connection_id">>)
  \o Table("ai_prompts", <<"account_id", "ai_agent_id", "platform_connection_id">>)
  \o Table("ai_knowledge_sources", <<"account_id", "ai_agent_id">>)
  \o Table("faq_knowledge", <<"account_id", "ai_agent_id">>)

InboxModule ==
  Table("conversations", <<"account_id", "assigned_to_user_id", "platform_connection_id">>)
  \o Table("messages", <<"account_id", "conversation_id", "created_by_user_id">>)

FacebookComments ==
  Table("facebook_comments",
        <<"account_id", "assigned_to_user_id", "platform_connection_id">>)
  \o Table("facebook_comment_replies", <<"account_id", "comment_id", "created_by_user_id">>)

SocialPosts ==
  Table("social_posts",
        <<"account_id", "ai_agent_id", "ai_prompt_id", "approved_by_user_id",
          "created_by_user_id", "platform_connection_id", "rejected_by_user_id">>)

AsyncFoundation ==
  Columns("accounts", <<"token_balance", "monthly_token_credit",
                        "token_credit_last_applied_at", "token_credit_next_reset_at">>)
  \o Table("webhook_events", <<"account_id", "platform_connection_id">>)
  \o Table("sync_jobs", <<"account_id", "platform_connection_id">>)

Observability ==
  Table("action_usage_logs", <<"account_id", "actor_user_id", "platform_connection_id">>)
  \o Table("llm_token_usage", <<"account_id", "actor_user_id", "platform_connection_id">>)
  \o Table("audit_logs", <<"account_id", "actor_user_id">>)

BillingPlans ==
  Table("billing_plans", <<>>)
  \o Table("account_subscriptions", <<"account_id", "billing_plan_id">>)

\* The new automation types of sync_jobs.job_type come first, in downgrade too.
JobTypes == Statement("enum", "sync_jobs", "job_type")
AutomationWorkflows ==
  Table("automation_workflows", <<"account_id", "platform_connection_id", "ai_agent_id">>)

RbacTables ==
  Table("roles", <<>>) \o Table("permissions", <<>>)
  \o Table("role_permissions", <<"role_id", "permission_id">>)
  \o Table("account_users", <<"account_id", "user_id", "role_id">>)

FeatureTables ==
  Table("feature_catalog", <<>>)
  \o Table("plan_features", <<"billing_plan_id", "feature_catalog_id">>)
  \o Table("account_subscription_feature_snapshot",
           <<"account_subscription_id", "feature_catalog_id">>)

TokenTables ==
  Table("token_purchase_packages", <<>>)
  \o Table("token_wallets", <<"account_id">>)
  \o Table("billing_transactions",
           <<"account_id", "account_subscription_id", "token_purchase_package_id">>)
  \o Table("token_ledger",
           <<"token_wallet_id", "account_id", "account_subscription_id",
             "billing_transaction_id">>)

TokenWalletFoundation ==
  Columns("billing_plans", <<"setup_fee_usd">>)
  \o Columns("token_ledger", <<"allocation_type", "remaining_tokens", "expires_at",
                               "expired_at", "is_expired">>)

UserHierarchy ==
  Columns("users", <<"user_role", "managed_by_user_id", "permissions_json">>)
  \o <<Statement("index", "users", "managed_by_user_id"),
       Statement("key", "users", "managed_by_user_id")>>

Upgrade ==
  <<Foundation, PlatformConnections, AiConfiguration, InboxModule, FacebookComments,
    SocialPosts, AsyncFoundation, Observability, BillingPlans,
    <<JobTypes>> \o AutomationWorkflows, RbacTables \o FeatureTables \o TokenTables,
    TokenWalletFoundation, UserHierarchy>>
Latest == Len(Upgrade)

\* downgrade() left as `pass` (mutant of Downgrade).
DowngradePass(r) == <<>>

\* Every downgrade() undoes its upgrade() from the last statement to the first,
\* but for the type of job_type.
Downgrade(r) ==
  IF r = 10 THEN <<JobTypes>> \o Reverse(AutomationWorkflows) ELSE Reverse(Upgrade[r])

(***************************************************************************)
(* What MySQL refuses.                                                     *)
(***************************************************************************)
Statements == UNION {ToSet(Upgrade[r]) : r \in 1..Latest}
TablesOf(r) == {s \in ToSet(Upgrade[r]) : s.kind = "table"}
HasTable(t) == Statement("table", t, "id") \in schema

\* The columns of a table with a foreign key, and the table each refers to.
KeysOf(t) == {s \in Statements : s.kind = "index" /\ s.on = t}
Target ==
  [account_id |-> "accounts", user_id |-> "users", assigned_to_user_id |-> "users",
   created_by_user_id |-> "users", approved_by_user_id |-> "users",
   rejected_by_user_id |-> "users", actor_user_id |-> "users",
   managed_by_user_id |-> "users", platform_connection_id |-> "platform_connections",
   ai_agent_id |-> "ai_agents", ai_prompt_id |-> "ai_prompts",
   conversation_id |-> "conversations", comment_id |-> "facebook_comments",
   billing_plan_id |-> "billing_plans", role_id |-> "roles",
   permission_id |-> "permissions", feature_catalog_id |-> "feature_catalog",
   account_subscription_id |-> "account_subscriptions",
   token_purchase_package_id |-> "token_purchase_packages",
   token_wallet_id |-> "token_wallets", billing_transaction_id |-> "billing_transactions"]

\* The foreign keys in force: a table is created with its keys, but for the one
\* of users that a later revision adds.
Referring ==
  {s \in Statements :
     /\ s.kind = "index" /\ HasTable(s.on)
     /\ s.col = "managed_by_user_id" => Statement("key", s.on, s.col) \in schema}

\* Columns a unique constraint of the table starts with: their foreign key does
\* not need the index.
Spare ==
  {<<"memberships", "account_id">>, <<"role_permissions", "role_id">>,
   <<"account_users", "account_id">>, <<"plan_features", "billing_plan_id">>,
   <<"account_subscription_feature_snapshot", "account_subscription_id">>,
   <<"token_wallets", "account_id">>}

\* Error 1553: an index that a foreign key needs cannot be dropped.
Needed(s) == s \in Referring /\ <<s.on, s.col>> \notin Spare

\* create_table with IF NOT EXISTS (mutant of CanCreate).
CanCreateAgain(s) == s.kind # "table" => HasTable(s.on)

CanCreate(s) ==
  CASE s.kind = "table" -> /\ s \notin schema
                           /\ \A k \in KeysOf(s.on) :
                                \/ k.col = "managed_by_user_id"
                                \/ HasTable(Target[k.col])
    [] s.kind = "enum"  -> HasTable(s.on)
    [] OTHER            -> s \notin schema /\ HasTable(s.on)

CanDrop(s) ==
  CASE s.kind = "enum"  -> HasTable(s.on)
    [] s.kind = "index" -> s \in schema /\ ~Needed(s)
    [] s.kind = "table" -> /\ s \in schema
                           /\ \A k \in Referring : k.on # s.on => Target[k.col] # s.on
    [] OTHER            -> s \in schema

--------------------------------------------------------------------------------
Runner == [dir : {"idle", "up", "down"}, rev : 0..Latest, at : Nat]
Stopped == [dir |-> "idle", rev |-> 0, at |-> 0]
Plan(n) == IF runner[n].dir = "up" THEN Upgrade[runner[n].rev] ELSE Downgrade(runner[n].rev)

Init ==
  /\ schema = {}
  /\ version = 0
  /\ runner = [n \in Runners |-> Stopped]
  /\ torn = {}

\* The command reads alembic_version and starts on the next revision, or the last.
\* Deployments may upgrade at the same time; a downgrade is run by hand and alone.
Begin(n) ==
  /\ runner[n].dir = "idle"
  /\ \A m \in Runners : runner[m].dir # "down"
  /\ \/ /\ version < Latest
        /\ runner' = [runner EXCEPT ![n] = [dir |-> "up", rev |-> version + 1, at |-> 1]]
     \/ /\ version > 0
        /\ \A m \in Runners : runner[m].dir = "idle"
        /\ runner' = [runner EXCEPT ![n] = [dir |-> "down", rev |-> version, at |-> 1]]
  /\ UNCHANGED <<schema, version, torn>>

\* One DDL statement, committed as it completes.
Execute(n) ==
  /\ runner[n].dir # "idle"
  /\ runner[n].at <= Len(Plan(n))
  /\ LET s == Plan(n)[runner[n].at] IN
       \/ /\ runner[n].dir = "up" /\ CanCreate(s)
          /\ schema' = schema \cup {s}
       \/ /\ runner[n].dir = "down" /\ CanDrop(s)
          /\ schema' = IF s.kind = "table" THEN {o \in schema : o.on # s.on} ELSE schema \ {s}
  /\ runner' = [runner EXCEPT ![n].at = @ + 1]
  /\ UNCHANGED <<version, torn>>

\* What a command that ends without the stamp has changed for good: it got past
\* the first statement (the change of job_type can be repeated).
Tears(n) ==
  LET done == {Plan(n)[i] : i \in 1..(runner[n].at - 1)} IN
  IF done \ {JobTypes} = {} THEN {} ELSE {[dir |-> runner[n].dir, rev |-> runner[n].rev]}

\* A statement fails, or the process is killed between two statements.
Stop(n) ==
  /\ runner[n].dir # "idle"
  /\ runner' = [runner EXCEPT ![n] = Stopped]
  /\ torn' = torn \cup Tears(n)
  /\ UNCHANGED <<schema, version>>

\* The stamp written before the statements (mutant of Finished).
FinishedEarly(n) == runner[n].at >= 1

Finished(n) == runner[n].at > Len(Plan(n))

\* The UPDATE of alembic_version, which must find the version it replaces; an
\* upgrade goes on to the next revision.
Stamp(n) ==
  /\ runner[n].dir # "idle" /\ Finished(n)
  /\ LET r == runner[n].rev IN
       \/ /\ runner[n].dir = "up" /\ version = r - 1
          /\ version' = r
          /\ runner' = [runner EXCEPT ![n] =
               IF r < Latest THEN [dir |-> "up", rev |-> r + 1, at |-> 1] ELSE Stopped]
       \/ /\ runner[n].dir = "down" /\ version = r
          /\ version' = r - 1
          /\ runner' = [runner EXCEPT ![n] = Stopped]
  /\ UNCHANGED <<schema, torn>>

Next == \E n \in Runners : Begin(n) \/ Execute(n) \/ Stop(n) \/ Stamp(n)

Spec == Init /\ [][Next]_vars

--------------------------------------------------------------------------------
(***************************************************************************)
(* Properties.                                                             *)
(***************************************************************************)

\* The recorded version tells the truth about the tables: those of the revisions
\* it counts all exist, and there are no others but those of the next revision.
TablesMatchVersion ==
  /\ \A r \in 1..version : TablesOf(r) \subseteq schema
  /\ \A r \in (version + 2)..Latest : TablesOf(r) \cap schema = {}

\* A revision that a command left half applied is never recorded as applied, and
\* one left half undone never as undone, by that command, a rerun or another
\* command: somebody has to repair the database by hand.
TornStaysTorn ==
  \A t \in torn : IF t.dir = "up" THEN version < t.rev ELSE version >= t.rev

\* Only the last two revisions can be undone on MySQL: every older downgrade drops
\* an index that a foreign key of the table needs, and stops there.
OnlyLastTwoUndone == [][version' < version => version > Latest - 2]_vars
================================================================================
