--------------------------- MODULE Migrations_proofs ---------------------------
(***************************************************************************)
(* Proofs about Migrations, for any number of alembic commands at once.    *)
(* Everything rests on what the thirteen revisions are: what the first and *)
(* the last statement of an upgrade make that is not an index, and what no *)
(* later one makes again.                                                  *)
(***************************************************************************)
EXTENDS Migrations, TLAPS

(***************************************************************************)
(* The statements of the revisions.                                        *)
(***************************************************************************)
\* The kind and the table of a statement.
Part(s) == <<s.kind, s.on>>

\* Statements from a first to a last one which, but for indexes, have only the given
\* parts.
Lines(x, parts, first, last) ==
  /\ \E S : x \in Seq(S)
  /\ Len(x) >= 1
  /\ \A i \in 1..Len(x) : x[i].kind = "index" \/ Part(x[i]) \in parts
  /\ x[1] = first /\ x[Len(x)] = last

\* An index they end with is on a table they create.
Closed(x) ==
  x[Len(x)].kind = "index" => \E i \in 1..Len(x) : x[i] = Statement("table", x[Len(x)].on, "id")
Script(x, parts, first, last) == Lines(x, parts, first, last) /\ Closed(x)

LEMMA Joined ==
  ASSUME NEW U, NEW x \in Seq(U), NEW y \in Seq(U)
  PROVE  /\ x \o y \in Seq(U) /\ Len(x \o y) = Len(x) + Len(y)
         /\ \A i \in 1..Len(x) : (x \o y)[i] = x[i]
         /\ \A i \in (Len(x) + 1)..Len(x \o y) : (x \o y)[i] = y[i - Len(x)]
  OBVIOUS

LEMMA JoinLines ==
  ASSUME NEW x, NEW y, NEW p, NEW f, NEW g, NEW l, NEW m,
         Lines(x, p, f, l), Lines(y, p, g, m)
  PROVE  Lines(x \o y, p, f, m)
<1>1. PICK S, T : x \in Seq(S) /\ y \in Seq(T)
  BY DEF Lines
<1> DEFINE U == S \cup T
<1>2. x \in Seq(U) /\ y \in Seq(U) /\ Len(x) >= 1 /\ Len(y) >= 1
  BY <1>1 DEF Lines
<1> HIDE DEF U
<1>3. /\ x \o y \in Seq(U) /\ Len(x \o y) = Len(x) + Len(y)
      /\ \A i \in 1..Len(x) : (x \o y)[i] = x[i]
      /\ \A i \in (Len(x) + 1)..Len(x \o y) : (x \o y)[i] = y[i - Len(x)]
  BY <1>2, Joined
<1>4. ASSUME NEW i \in 1..Len(x \o y)
      PROVE  (x \o y)[i].kind = "index" \/ Part((x \o y)[i]) \in p
  <2>1. CASE i \in 1..Len(x)
    BY <1>3, <2>1 DEF Lines
  <2>2. CASE i \notin 1..Len(x)
    <3>1. i - Len(x) \in 1..Len(y) /\ (x \o y)[i] = y[i - Len(x)]
      BY <1>2, <1>3, <2>2
    <3>2. QED  BY <3>1 DEF Lines
  <2>3. QED  BY <2>1, <2>2
<1>5. (x \o y)[1] = x[1] /\ (x \o y)[Len(x \o y)] = y[Len(y)]
  BY <1>2, <1>3
<1>6. QED  BY <1>2, <1>3, <1>4, <1>5 DEF Lines

LEMMA OneStatement ==
  ASSUME NEW s, NEW p, Part(s) \in p
  PROVE  Lines(<<s>>, p, s, s)
<1> DEFINE y == <<s>>
<1>1. y \in Seq({s}) /\ Len(y) = 1 /\ y[1] = s
  OBVIOUS
<1> HIDE DEF y
<1>2. Lines(y, p, s, s)
  BY <1>1 DEF Lines
<1>3. QED  BY <1>2 DEF y

LEMMA ManyStatements ==
  ASSUME NEW n \in Nat \ {0}, NEW y, y = [i \in 1..n |-> y[i]], NEW p,
         \A i \in 1..n : y[i].kind = "index" \/ Part(y[i]) \in p
  PROVE  Lines(y, p, y[1], y[n])
<1> DEFINE S == {y[i] : i \in 1..n}
<1>1. \A i \in 1..n : y[i] \in S
  OBVIOUS
<1> HIDE DEF S
<1>2. y \in Seq(S) /\ Len(y) = n
  BY <1>1
<1>3. QED  BY <1>2 DEF Lines

LEMMA StatementParts ==
  ASSUME NEW k, NEW t, NEW c
  PROVE  /\ Statement(k, t, c).kind = k /\ Statement(k, t, c).on = t
         /\ Statement(k, t, c).col = c /\ Part(Statement(k, t, c)) = <<k, t>>
  BY DEF Statement, Part

LEMMA JoinScripts ==
  ASSUME NEW x, NEW y, NEW p, NEW f, NEW g, NEW l, NEW m,
         Lines(x, p, f, l), Script(y, p, g, m)
  PROVE  Script(x \o y, p, f, m)
<1>1. Lines(x \o y, p, f, m)
  BY JoinLines DEF Script
<1>2. PICK S, T : x \in Seq(S) /\ y \in Seq(T)
  BY DEF Script, Lines
<1> DEFINE U == S \cup T
<1>3. x \in Seq(U) /\ y \in Seq(U) /\ Len(x) >= 1 /\ Len(y) >= 1
  BY <1>2 DEF Lines, Script
<1> HIDE DEF U
<1> DEFINE z == x \o y
<1>4. /\ Len(z) = Len(x) + Len(y)
      /\ \A i \in 1..Len(y) : Len(x) + i \in 1..Len(z) /\ z[Len(x) + i] = y[i]
  BY <1>3
<1>5. z[Len(z)] = y[Len(y)]
  BY <1>3, <1>4
<1> HIDE DEF z
<1>6. Closed(z)
  BY <1>4, <1>5 DEF Closed, Script
<1>7. QED  BY <1>1, <1>6 DEF Script, z

\* A table, without foreign keys and with some; columns of a table.
LEMMA BareTable ==
  ASSUME NEW t, NEW p, <<"table", t>> \in p
  PROVE  Script(Table(t, <<>>), p, Statement("table", t, "id"), Statement("table", t, "id"))
<1> DEFINE s == Statement("table", t, "id")
<1>1. Part(s) = <<"table", t>>
  BY StatementParts
<1>2. Table(t, <<>>) = <<s>>
  <2>1. [i \in DOMAIN <<>> |-> Statement("index", t, <<>>[i])] = <<>>
    OBVIOUS
  <2> HIDE DEF s
  <2>2. <<s>> \o <<>> = <<s>>
    OBVIOUS
  <2>3. QED  BY <2>1, <2>2 DEF Table, s
<1>3. s.kind = "table"
  BY StatementParts
<1> HIDE DEF s
<1>4. Lines(<<s>>, p, s, s)
  BY <1>1, OneStatement
<1>5. QED  BY <1>2, <1>3, <1>4 DEF s, Script, Closed, Lines

LEMMA KeyedTable ==
  ASSUME NEW t, NEW p, <<"table", t>> \in p, NEW keys, NEW n \in Nat \ {0}, DOMAIN keys = 1..n
  PROVE  Script(Table(t, keys), p, Statement("table", t, "id"), Statement("index", t, keys[n]))
<1> DEFINE s == Statement("table", t, "id")
           y == [i \in DOMAIN keys |-> Statement("index", t, keys[i])]
<1>1. Part(s) = <<"table", t>>
  BY StatementParts
<1>2. Lines(<<s>>, p, s, s)
  <2> HIDE DEF s
  <2>1. QED  BY <1>1, OneStatement
<1>3. Lines(y, p, y[1], Statement("index", t, keys[n]))
  <2>1. \A i \in 1..n : y[i] = Statement("index", t, keys[i])
    OBVIOUS
  <2>2. y = [i \in 1..n |-> y[i]]
    OBVIOUS
  <2>3. \A i \in 1..n : Statement("index", t, keys[i]).kind = "index"
    BY StatementParts
  <2> HIDE DEF y
  <2>4. Lines(y, p, y[1], y[n])
    BY <2>1, <2>2, <2>3, ManyStatements
  <2>5. QED  BY <2>1, <2>4
<1> DEFINE x == Table(t, keys)
           last == Statement("index", t, keys[n])
<1>4. x = <<s>> \o y
  BY DEF Table
<1>5. last.on = t
  BY StatementParts
<1> HIDE DEF s, y, x, last
<1>6. Lines(x, p, s, last)
  BY <1>2, <1>3, <1>4, JoinLines DEF last
<1>7. 1 \in 1..Len(x) /\ x[1] = s /\ x[Len(x)] = last
  BY <1>6 DEF Lines
<1>8. Closed(x)
  BY <1>5, <1>7 DEF Closed, s
<1>9. QED  BY <1>6, <1>8 DEF Script, s, x, last

LEMMA AddedColumns ==
  ASSUME NEW t, NEW p, <<"column", t>> \in p, NEW names, NEW n \in Nat \ {0}, DOMAIN names = 1..n
  PROVE  Script(Columns(t, names), p, Statement("column", t, names[1]),
                Statement("column", t, names[n]))
<1> DEFINE y == Columns(t, names)
<1>1. y = [i \in 1..n |-> Statement("column", t, names[i])]
  BY DEF Columns
<1>2. \A i \in 1..n : Part(Statement("column", t, names[i])) = <<"column", t>>
  BY StatementParts
<1> HIDE DEF y
<1>3. \A i \in 1..n : y[i] = Statement("column", t, names[i])
  BY <1>1
<1>4. y = [i \in 1..n |-> y[i]]
  BY <1>1
<1>5. \A i \in 1..n : Part(y[i]) \in p
  BY <1>2, <1>3
<1>6. Lines(y, p, y[1], y[n])
  BY <1>4, <1>5, ManyStatements
<1>7. y[n].kind = "column"
  BY <1>3, StatementParts
<1>8. Closed(y)
  BY <1>6, <1>7 DEF Closed, Lines
<1>9. QED  BY <1>3, <1>6, <1>8 DEF y, Script

LEMMA OneKey ==
  ASSUME NEW t, NEW p, <<"table", t>> \in p, NEW a
  PROVE  Script(Table(t, <<a>>), p, Statement("table", t, "id"), Statement("index", t, a))
<1> DEFINE keys == <<a>>
           n == 1
<1>1. n \in Nat \ {0} /\ DOMAIN keys = 1..n /\ keys[n] = a
  OBVIOUS
<1> HIDE DEF keys, n
<1>2. Script(Table(t, keys), p, Statement("table", t, "id"),
             Statement("index", t, keys[n]))
  BY <1>1, KeyedTable
<1>3. QED  BY <1>1, <1>2 DEF keys

LEMMA TwoKeys ==
  ASSUME NEW t, NEW p, <<"table", t>> \in p, NEW a, NEW b
  PROVE  Script(Table(t, <<a, b>>), p, Statement("table", t, "id"), Statement("index", t, b))
<1> DEFINE keys == <<a, b>>
           n == 2
<1>1. n \in Nat \ {0} /\ DOMAIN keys = 1..n /\ keys[n] = b
  OBVIOUS
<1> HIDE DEF keys, n
<1>2. Script(Table(t, keys), p, Statement("table", t, "id"),
             Statement("index", t, keys[n]))
  BY <1>1, KeyedTable
<1>3. QED  BY <1>1, <1>2 DEF keys

LEMMA ThreeKeys ==
  ASSUME NEW t, NEW p, <<"table", t>> \in p, NEW a, NEW b, NEW c
  PROVE  Script(Table(t, <<a, b, c>>), p, Statement("table", t, "id"), Statement("index", t, c))
<1> DEFINE keys == <<a, b, c>>
           n == 3
<1>1. n \in Nat \ {0} /\ DOMAIN keys = 1..n /\ keys[n] = c
  OBVIOUS
<1> HIDE DEF keys, n
<1>2. Script(Table(t, keys), p, Statement("table", t, "id"),
             Statement("index", t, keys[n]))
  BY <1>1, KeyedTable
<1>3. QED  BY <1>1, <1>2 DEF keys

LEMMA FourKeys ==
  ASSUME NEW t, NEW p, <<"table", t>> \in p, NEW a, NEW b, NEW c, NEW d
  PROVE  Script(Table(t, <<a, b, c, d>>), p, Statement("table", t, "id"), Statement("index", t, d))
<1> DEFINE keys == <<a, b, c, d>>
           n == 4
<1>1. n \in Nat \ {0} /\ DOMAIN keys = 1..n /\ keys[n] = d
  OBVIOUS
<1> HIDE DEF keys, n
<1>2. Script(Table(t, keys), p, Statement("table", t, "id"),
             Statement("index", t, keys[n]))
  BY <1>1, KeyedTable
<1>3. QED  BY <1>1, <1>2 DEF keys

LEMMA SevenKeys ==
  ASSUME NEW t, NEW p, <<"table", t>> \in p, NEW a, NEW b, NEW c, NEW d, NEW e, NEW f, NEW g
  PROVE  Script(Table(t, <<a, b, c, d, e, f, g>>),
                p, Statement("table", t, "id"), Statement("index", t, g))
<1> DEFINE keys == <<a, b, c, d, e, f, g>>
           n == 7
<1>1. n \in Nat \ {0} /\ DOMAIN keys = 1..n /\ keys[n] = g
  OBVIOUS
<1> HIDE DEF keys, n
<1>2. Script(Table(t, keys), p, Statement("table", t, "id"),
             Statement("index", t, keys[n]))
  BY <1>1, KeyedTable
<1>3. QED  BY <1>1, <1>2 DEF keys

LEMMA OneColumn ==
  ASSUME NEW t, NEW p, <<"column", t>> \in p, NEW a
  PROVE  Script(Columns(t, <<a>>), p, Statement("column", t, a), Statement("column", t, a))
<1> DEFINE keys == <<a>>
           n == 1
<1>1. n \in Nat \ {0} /\ DOMAIN keys = 1..n /\ keys[n] = a /\ keys[1] = a
  OBVIOUS
<1> HIDE DEF keys, n
<1>2. Script(Columns(t, keys), p, Statement("column", t, keys[1]),
             Statement("column", t, keys[n]))
  BY <1>1, AddedColumns
<1>3. QED  BY <1>1, <1>2 DEF keys

LEMMA ThreeColumns ==
  ASSUME NEW t, NEW p, <<"column", t>> \in p, NEW a, NEW b, NEW c
  PROVE  Script(Columns(t, <<a, b, c>>), p, Statement("column", t, a), Statement("column", t, c))
<1> DEFINE keys == <<a, b, c>>
           n == 3
<1>1. n \in Nat \ {0} /\ DOMAIN keys = 1..n /\ keys[n] = c /\ keys[1] = a
  OBVIOUS
<1> HIDE DEF keys, n
<1>2. Script(Columns(t, keys), p, Statement("column", t, keys[1]),
             Statement("column", t, keys[n]))
  BY <1>1, AddedColumns
<1>3. QED  BY <1>1, <1>2 DEF keys

LEMMA FourColumns ==
  ASSUME NEW t, NEW p, <<"column", t>> \in p, NEW a, NEW b, NEW c, NEW d
  PROVE  Script(Columns(t, <<a, b, c, d>>), p, Statement("column", t, a), Statement("column", t, d))
<1> DEFINE keys == <<a, b, c, d>>
           n == 4
<1>1. n \in Nat \ {0} /\ DOMAIN keys = 1..n /\ keys[n] = d /\ keys[1] = a
  OBVIOUS
<1> HIDE DEF keys, n
<1>2. Script(Columns(t, keys), p, Statement("column", t, keys[1]),
             Statement("column", t, keys[n]))
  BY <1>1, AddedColumns
<1>3. QED  BY <1>1, <1>2 DEF keys

LEMMA FiveColumns ==
  ASSUME NEW t, NEW p, <<"column", t>> \in p, NEW a, NEW b, NEW c, NEW d, NEW e
  PROVE  Script(Columns(t, <<a, b, c, d, e>>),
                p, Statement("column", t, a), Statement("column", t, e))
<1> DEFINE keys == <<a, b, c, d, e>>
           n == 5
<1>1. n \in Nat \ {0} /\ DOMAIN keys = 1..n /\ keys[n] = e /\ keys[1] = a
  OBVIOUS
<1> HIDE DEF keys, n
<1>2. Script(Columns(t, keys), p, Statement("column", t, keys[1]),
             Statement("column", t, keys[n]))
  BY <1>1, AddedColumns
<1>3. QED  BY <1>1, <1>2 DEF keys

LEMMA FoundationScript ==
  ASSUME NEW p,
         <<"table", "accounts">> \in p, <<"table", "users">> \in p, <<"table", "memberships">>
         \in p, <<"table", "onboarding_keys">> \in p, <<"table", "refresh_tokens">> \in p
  PROVE  Script(Foundation, p, Statement("table", "accounts", "id"),
                Statement("index", "refresh_tokens", "user_id"))
<1> DEFINE x1 == Table("accounts", <<>>)
           x2 == Table("users", <<>>)
           x3 == Table("memberships", <<"account_id", "user_id">>)
           x4 == Table("onboarding_keys", <<"account_id">>)
           x5 == Table("refresh_tokens", <<"user_id">>)
<1>1. Script(x1, p, Statement("table", "accounts", "id"), Statement("table", "accounts", "id"))
  BY BareTable
<1>2. Script(x2, p, Statement("table", "users", "id"), Statement("table", "users", "id"))
  BY BareTable
<1>3. Script(x3, p, Statement("table", "memberships", "id"),
             Statement("index", "memberships", "user_id"))
  BY TwoKeys
<1>4. Script(x4, p, Statement("table", "onboarding_keys", "id"),
             Statement("index", "onboarding_keys", "account_id"))
  BY OneKey
<1>5. Script(x5, p, Statement("table", "refresh_tokens", "id"),
             Statement("index", "refresh_tokens", "user_id"))
  BY OneKey
<1> HIDE DEF x1, x2, x3, x4, x5
<1>6. Script(x1 \o x2, p, Statement("table", "accounts", "id"),
             Statement("table", "users", "id"))
  BY <1>1, <1>2, JoinScripts DEF Script
<1>7. Script(x1 \o x2 \o x3, p, Statement("table", "accounts", "id"),
             Statement("index", "memberships", "user_id"))
  BY <1>6, <1>3, JoinScripts DEF Script
<1>8. Script(x1 \o x2 \o x3 \o x4, p, Statement("table", "accounts", "id"),
             Statement("index", "onboarding_keys", "account_id"))
  BY <1>7, <1>4, JoinScripts DEF Script
<1>9. Script(x1 \o x2 \o x3 \o x4 \o x5, p, Statement("table", "accounts", "id"),
             Statement("index", "refresh_tokens", "user_id"))
  BY <1>8, <1>5, JoinScripts DEF Script
<1>10. QED  BY <1>9 DEF Foundation, x1, x2, x3, x4, x5

LEMMA PlatformConnectionsScript ==
  ASSUME NEW p,
         <<"table", "platform_connections">> \in p
  PROVE  Script(PlatformConnections, p, Statement("table", "platform_connections", "id"),
                Statement("index", "platform_connections", "account_id"))
  BY OneKey DEF PlatformConnections

LEMMA AiConfigurationScript ==
  ASSUME NEW p,
         <<"table", "ai_agents">> \in p, <<"table", "ai_prompts">> \in p, <<"table",
         "ai_knowledge_sources">> \in p, <<"table", "faq_knowledge">> \in p
  PROVE  Script(AiConfiguration, p, Statement("table", "ai_agents", "id"),
                Statement("index", "faq_knowledge", "ai_agent_id"))
<1> DEFINE x1 == Table("ai_agents", <<"account_id", "platform_connection_id">>)
           x2 == Table("ai_prompts", <<"account_id", "ai_agent_id", "platform_connection_id">>)
           x3 == Table("ai_knowledge_sources", <<"account_id", "ai_agent_id">>)
           x4 == Table("faq_knowledge", <<"account_id", "ai_agent_id">>)
<1>1. Script(x1, p, Statement("table", "ai_agents", "id"),
             Statement("index", "ai_agents", "platform_connection_id"))
  BY TwoKeys
<1>2. Script(x2, p, Statement("table", "ai_prompts", "id"),
             Statement("index", "ai_prompts", "platform_connection_id"))
  BY ThreeKeys
<1>3. Script(x3, p, Statement("table", "ai_knowledge_sources", "id"),
             Statement("index", "ai_knowledge_sources", "ai_agent_id"))
  BY TwoKeys
<1>4. Script(x4, p, Statement("table", "faq_knowledge", "id"),
             Statement("index", "faq_knowledge", "ai_agent_id"))
  BY TwoKeys
<1> HIDE DEF x1, x2, x3, x4
<1>5. Script(x1 \o x2, p, Statement("table", "ai_agents", "id"),
             Statement("index", "ai_prompts", "platform_connection_id"))
  BY <1>1, <1>2, JoinScripts DEF Script
<1>6. Script(x1 \o x2 \o x3, p, Statement("table", "ai_agents", "id"),
             Statement("index", "ai_knowledge_sources", "ai_agent_id"))
  BY <1>5, <1>3, JoinScripts DEF Script
<1>7. Script(x1 \o x2 \o x3 \o x4, p, Statement("table", "ai_agents", "id"),
             Statement("index", "faq_knowledge", "ai_agent_id"))
  BY <1>6, <1>4, JoinScripts DEF Script
<1>8. QED  BY <1>7 DEF AiConfiguration, x1, x2, x3, x4

LEMMA InboxModuleScript ==
  ASSUME NEW p,
         <<"table", "conversations">> \in p, <<"table", "messages">> \in p
  PROVE  Script(InboxModule, p, Statement("table", "conversations", "id"),
                Statement("index", "messages", "created_by_user_id"))
<1> DEFINE x1 == Table("conversations", <<"account_id", "assigned_to_user_id",
                 "platform_connection_id">>)
           x2 == Table("messages", <<"account_id", "conversation_id", "created_by_user_id">>)
<1>1. Script(x1, p, Statement("table", "conversations", "id"),
             Statement("index", "conversations", "platform_connection_id"))
  BY ThreeKeys
<1>2. Script(x2, p, Statement("table", "messages", "id"),
             Statement("index", "messages", "created_by_user_id"))
  BY ThreeKeys
<1> HIDE DEF x1, x2
<1>3. Script(x1 \o x2, p, Statement("table", "conversations", "id"),
             Statement("index", "messages", "created_by_user_id"))
  BY <1>1, <1>2, JoinScripts DEF Script
<1>4. QED  BY <1>3 DEF InboxModule, x1, x2

LEMMA FacebookCommentsScript ==
  ASSUME NEW p,
         <<"table", "facebook_comments">> \in p, <<"table", "facebook_comment_replies">> \in p
  PROVE  Script(FacebookComments, p, Statement("table", "facebook_comments", "id"),
                Statement("index", "facebook_comment_replies", "created_by_user_id"))
<1> DEFINE x1 == Table("facebook_comments", <<"account_id", "assigned_to_user_id",
                 "platform_connection_id">>)
           x2 == Table("facebook_comment_replies", <<"account_id", "comment_id",
                 "created_by_user_id">>)
<1>1. Script(x1, p, Statement("table", "facebook_comments", "id"),
             Statement("index", "facebook_comments", "platform_connection_id"))
  BY ThreeKeys
<1>2. Script(x2, p, Statement("table", "facebook_comment_replies", "id"),
             Statement("index", "facebook_comment_replies", "created_by_user_id"))
  BY ThreeKeys
<1> HIDE DEF x1, x2
<1>3. Script(x1 \o x2, p, Statement("table", "facebook_comments", "id"),
             Statement("index", "facebook_comment_replies", "created_by_user_id"))
  BY <1>1, <1>2, JoinScripts DEF Script
<1>4. QED  BY <1>3 DEF FacebookComments, x1, x2

LEMMA SocialPostsScript ==
  ASSUME NEW p,
         <<"table", "social_posts">> \in p
  PROVE  Script(SocialPosts, p, Statement("table", "social_posts", "id"),
                Statement("index", "social_posts", "rejected_by_user_id"))
  BY SevenKeys DEF SocialPosts

LEMMA AsyncFoundationScript ==
  ASSUME NEW p,
         <<"column", "accounts">> \in p, <<"table", "webhook_events">> \in p, <<"table",
         "sync_jobs">> \in p
  PROVE  Script(AsyncFoundation, p, Statement("column", "accounts", "token_balance"),
                Statement("index", "sync_jobs", "platform_connection_id"))
<1> DEFINE x1 == Columns("accounts", <<"token_balance", "monthly_token_credit",
                 "token_credit_last_applied_at", "token_credit_next_reset_at">>)
           x2 == Table("webhook_events", <<"account_id", "platform_connection_id">>)
           x3 == Table("sync_jobs", <<"account_id", "platform_connection_id">>)
<1>1. Script(x1, p, Statement("column", "accounts", "token_balance"),
             Statement("column", "accounts", "token_credit_next_reset_at"))
  BY FourColumns
<1>2. Script(x2, p, Statement("table", "webhook_events", "id"),
             Statement("index", "webhook_events", "platform_connection_id"))
  BY TwoKeys
<1>3. Script(x3, p, Statement("table", "sync_jobs", "id"),
             Statement("index", "sync_jobs", "platform_connection_id"))
  BY TwoKeys
<1> HIDE DEF x1, x2, x3
<1>4. Script(x1 \o x2, p, Statement("column", "accounts", "token_balance"),
             Statement("index", "webhook_events", "platform_connection_id"))
  BY <1>1, <1>2, JoinScripts DEF Script
<1>5. Script(x1 \o x2 \o x3, p, Statement("column", "accounts", "token_balance"),
             Statement("index", "sync_jobs", "platform_connection_id"))
  BY <1>4, <1>3, JoinScripts DEF Script
<1>6. QED  BY <1>5 DEF AsyncFoundation, x1, x2, x3

LEMMA ObservabilityScript ==
  ASSUME NEW p,
         <<"table", "action_usage_logs">> \in p, <<"table", "llm_token_usage">> \in p,
         <<"table", "audit_logs">> \in p
  PROVE  Script(Observability, p, Statement("table", "action_usage_logs", "id"),
                Statement("index", "audit_logs", "actor_user_id"))
<1> DEFINE x1 == Table("action_usage_logs", <<"account_id", "actor_user_id",
                 "platform_connection_id">>)
           x2 == Table("llm_token_usage", <<"account_id", "actor_user_id",
                 "platform_connection_id">>)
           x3 == Table("audit_logs", <<"account_id", "actor_user_id">>)
<1>1. Script(x1, p, Statement("table", "action_usage_logs", "id"),
             Statement("index", "action_usage_logs", "platform_connection_id"))
  BY ThreeKeys
<1>2. Script(x2, p, Statement("table", "llm_token_usage", "id"),
             Statement("index", "llm_token_usage", "platform_connection_id"))
  BY ThreeKeys
<1>3. Script(x3, p, Statement("table", "audit_logs", "id"),
             Statement("index", "audit_logs", "actor_user_id"))
  BY TwoKeys
<1> HIDE DEF x1, x2, x3
<1>4. Script(x1 \o x2, p, Statement("table", "action_usage_logs", "id"),
             Statement("index", "llm_token_usage", "platform_connection_id"))
  BY <1>1, <1>2, JoinScripts DEF Script
<1>5. Script(x1 \o x2 \o x3, p, Statement("table", "action_usage_logs", "id"),
             Statement("index", "audit_logs", "actor_user_id"))
  BY <1>4, <1>3, JoinScripts DEF Script
<1>6. QED  BY <1>5 DEF Observability, x1, x2, x3

LEMMA BillingPlansScript ==
  ASSUME NEW p,
         <<"table", "billing_plans">> \in p, <<"table", "account_subscriptions">> \in p
  PROVE  Script(BillingPlans, p, Statement("table", "billing_plans", "id"),
                Statement("index", "account_subscriptions", "billing_plan_id"))
<1> DEFINE x1 == Table("billing_plans", <<>>)
           x2 == Table("account_subscriptions", <<"account_id", "billing_plan_id">>)
<1>1. Script(x1, p, Statement("table", "billing_plans", "id"),
             Statement("table", "billing_plans", "id"))
  BY BareTable
<1>2. Script(x2, p, Statement("table", "account_subscriptions", "id"),
             Statement("index", "account_subscriptions", "billing_plan_id"))
  BY TwoKeys
<1> HIDE DEF x1, x2
<1>3. Script(x1 \o x2, p, Statement("table", "billing_plans", "id"),
             Statement("index", "account_subscriptions", "billing_plan_id"))
  BY <1>1, <1>2, JoinScripts DEF Script
<1>4. QED  BY <1>3 DEF BillingPlans, x1, x2

LEMMA AutomationWorkflowsScript ==
  ASSUME NEW p,
         <<"table", "automation_workflows">> \in p
  PROVE  Script(AutomationWorkflows, p, Statement("table", "automation_workflows", "id"),
                Statement("index", "automation_workflows", "ai_agent_id"))
  BY ThreeKeys DEF AutomationWorkflows

LEMMA RbacTablesScript ==
  ASSUME NEW p,
         <<"table", "roles">> \in p, <<"table", "permissions">> \in p, <<"table",
         "role_permissions">> \in p, <<"table", "account_users">> \in p
  PROVE  Script(RbacTables, p, Statement("table", "roles", "id"),
                Statement("index", "account_users", "role_id"))
<1> DEFINE x1 == Table("roles", <<>>)
           x2 == Table("permissions", <<>>)
           x3 == Table("role_permissions", <<"role_id", "permission_id">>)
           x4 == Table("account_users", <<"account_id", "user_id", "role_id">>)
<1>1. Script(x1, p, Statement("table", "roles", "id"), Statement("table", "roles", "id"))
  BY BareTable
<1>2. Script(x2, p, Statement("table", "permissions", "id"),
             Statement("table", "permissions", "id"))
  BY BareTable
<1>3. Script(x3, p, Statement("table", "role_permissions", "id"),
             Statement("index", "role_permissions", "permission_id"))
  BY TwoKeys
<1>4. Script(x4, p, Statement("table", "account_users", "id"),
             Statement("index", "account_users", "role_id"))
  BY ThreeKeys
<1> HIDE DEF x1, x2, x3, x4
<1>5. Script(x1 \o x2, p, Statement("table", "roles", "id"),
             Statement("table", "permissions", "id"))
  BY <1>1, <1>2, JoinScripts DEF Script
<1>6. Script(x1 \o x2 \o x3, p, Statement("table", "roles", "id"),
             Statement("index", "role_permissions", "permission_id"))
  BY <1>5, <1>3, JoinScripts DEF Script
<1>7. Script(x1 \o x2 \o x3 \o x4, p, Statement("table", "roles", "id"),
             Statement("index", "account_users", "role_id"))
  BY <1>6, <1>4, JoinScripts DEF Script
<1>8. QED  BY <1>7 DEF RbacTables, x1, x2, x3, x4

LEMMA FeatureTablesScript ==
  ASSUME NEW p,
         <<"table", "feature_catalog">> \in p, <<"table", "plan_features">> \in p, <<"table",
         "account_subscription_feature_snapshot">> \in p
  PROVE  Script(FeatureTables, p, Statement("table", "feature_catalog", "id"),
                Statement("index", "account_subscription_feature_snapshot", "feature_catalog_id"))
<1> DEFINE x1 == Table("feature_catalog", <<>>)
           x2 == Table("plan_features", <<"billing_plan_id", "feature_catalog_id">>)
           x3 == Table("account_subscription_feature_snapshot", <<"account_subscription_id",
                 "feature_catalog_id">>)
<1>1. Script(x1, p, Statement("table", "feature_catalog", "id"),
             Statement("table", "feature_catalog", "id"))
  BY BareTable
<1>2. Script(x2, p, Statement("table", "plan_features", "id"),
             Statement("index", "plan_features", "feature_catalog_id"))
  BY TwoKeys
<1>3. Script(x3, p, Statement("table", "account_subscription_feature_snapshot", "id"),
             Statement("index", "account_subscription_feature_snapshot", "feature_catalog_id"))
  BY TwoKeys
<1> HIDE DEF x1, x2, x3
<1>4. Script(x1 \o x2, p, Statement("table", "feature_catalog", "id"),
             Statement("index", "plan_features", "feature_catalog_id"))
  BY <1>1, <1>2, JoinScripts DEF Script
<1>5. Script(x1 \o x2 \o x3, p, Statement("table", "feature_catalog", "id"),
             Statement("index", "account_subscription_feature_snapshot", "feature_catalog_id"))
  BY <1>4, <1>3, JoinScripts DEF Script
<1>6. QED  BY <1>5 DEF FeatureTables, x1, x2, x3

LEMMA TokenTablesScript ==
  ASSUME NEW p,
         <<"table", "token_purchase_packages">> \in p, <<"table", "token_wallets">> \in p,
         <<"table", "billing_transactions">> \in p, <<"table", "token_ledger">> \in p
  PROVE  Script(TokenTables, p, Statement("table", "token_purchase_packages", "id"),
                Statement("index", "token_ledger", "billing_transaction_id"))
<1> DEFINE x1 == Table("token_purchase_packages", <<>>)
           x2 == Table("token_wallets", <<"account_id">>)
           x3 == Table("billing_transactions", <<"account_id", "account_subscription_id",
                 "token_purchase_package_id">>)
           x4 == Table("token_ledger", <<"token_wallet_id", "account_id",
                 "account_subscription_id", "billing_transaction_id">>)
<1>1. Script(x1, p, Statement("table", "token_purchase_packages", "id"),
             Statement("table", "token_purchase_packages", "id"))
  BY BareTable
<1>2. Script(x2, p, Statement("table", "token_wallets", "id"),
             Statement("index", "token_wallets", "account_id"))
  BY OneKey
<1>3. Script(x3, p, Statement("table", "billing_transactions", "id"),
             Statement("index", "billing_transactions", "token_purchase_package_id"))
  BY ThreeKeys
<1>4. Script(x4, p, Statement("table", "token_ledger", "id"),
             Statement("index", "token_ledger", "billing_transaction_id"))
  BY FourKeys
<1> HIDE DEF x1, x2, x3, x4
<1>5. Script(x1 \o x2, p, Statement("table", "token_purchase_packages", "id"),
             Statement("index", "token_wallets", "account_id"))
  BY <1>1, <1>2, JoinScripts DEF Script
<1>6. Script(x1 \o x2 \o x3, p, Statement("table", "token_purchase_packages", "id"),
             Statement("index", "billing_transactions", "token_purchase_package_id"))
  BY <1>5, <1>3, JoinScripts DEF Script
<1>7. Script(x1 \o x2 \o x3 \o x4, p, Statement("table", "token_purchase_packages", "id"),
             Statement("index", "token_ledger", "billing_transaction_id"))
  BY <1>6, <1>4, JoinScripts DEF Script
<1>8. QED  BY <1>7 DEF TokenTables, x1, x2, x3, x4

LEMMA TokenWalletFoundationScript ==
  ASSUME NEW p,
         <<"column", "billing_plans">> \in p, <<"column", "token_ledger">> \in p
  PROVE  Script(TokenWalletFoundation, p, Statement("column", "billing_plans", "setup_fee_usd"),
                Statement("column", "token_ledger", "is_expired"))
<1> DEFINE x1 == Columns("billing_plans", <<"setup_fee_usd">>)
           x2 == Columns("token_ledger", <<"allocation_type", "remaining_tokens", "expires_at",
                 "expired_at", "is_expired">>)
<1>1. Script(x1, p, Statement("column", "billing_plans", "setup_fee_usd"),
             Statement("column", "billing_plans", "setup_fee_usd"))
  BY OneColumn
<1>2. Script(x2, p, Statement("column", "token_ledger", "allocation_type"),
             Statement("column", "token_ledger", "is_expired"))
  BY FiveColumns
<1> HIDE DEF x1, x2
<1>3. Script(x1 \o x2, p, Statement("column", "billing_plans", "setup_fee_usd"),
             Statement("column", "token_ledger", "is_expired"))
  BY <1>1, <1>2, JoinScripts DEF Script
<1>4. QED  BY <1>3 DEF TokenWalletFoundation, x1, x2

\* What each revision creates or adds, but for indexes.
Parts ==
  <<{"table"} \X {"accounts", "users", "memberships", "onboarding_keys", "refresh_tokens"},
    {"table"} \X {"platform_connections"},
    {"table"} \X {"ai_agents", "ai_prompts", "ai_knowledge_sources", "faq_knowledge"},
    {"table"} \X {"conversations", "messages"},
    {"table"} \X {"facebook_comments", "facebook_comment_replies"},
    {"table"} \X {"social_posts"},
    ({"column"} \X {"accounts"}) \cup ({"table"} \X {"webhook_events", "sync_jobs"}),
    {"table"} \X {"action_usage_logs", "llm_token_usage", "audit_logs"},
    {"table"} \X {"billing_plans", "account_subscriptions"},
    ({"enum"} \X {"sync_jobs"}) \cup ({"table"} \X {"automation_workflows"}),
    {"table"} \X {"roles", "permissions", "role_permissions", "account_users",
                  "feature_catalog", "plan_features", "account_subscription_feature_snapshot",
                  "token_purchase_packages", "token_wallets", "billing_transactions",
                  "token_ledger"},
    {"column"} \X {"billing_plans", "token_ledger"},
    {"column", "key"} \X {"users"}>>

\* No two revisions touch the same.
LEMMA PartsApart ==
  ASSUME NEW r \in 1..13, NEW q \in 1..13, NEW s, s \in Parts[r], s \in Parts[q]
  PROVE  r = q
<1>1. s[1] \in {"table", "column", "key", "enum"}
  BY DEF Parts
<1>2. QED  BY <1>1 DEF Parts

LEMMA UserHierarchyScript ==
  Script(UserHierarchy, {"column", "key"} \X {"users"}, Statement("column", "users", "user_role"),
         Statement("key", "users", "managed_by_user_id"))
<1> DEFINE p == {"column", "key"} \X {"users"}
           i == Statement("index", "users", "managed_by_user_id")
           k == Statement("key", "users", "managed_by_user_id")
           x == Columns("users", <<"user_role", "managed_by_user_id", "permissions_json">>)
           y == <<i, k>>
<1>1. <<"column", "users">> \in p /\ <<"key", "users">> \in p
  OBVIOUS
<1>2. i.kind = "index" /\ k.kind = "key" /\ Part(k) = <<"key", "users">>
  BY StatementParts
<1> HIDE DEF p, i, k
<1>3. Script(x, p, Statement("column", "users", "user_role"),
             Statement("column", "users", "permissions_json"))
  BY <1>1, ThreeColumns
<1>4. Script(y, p, i, k)
  <2>1. 2 \in Nat \ {0} /\ y = [j \in 1..2 |-> y[j]] /\ y[1] = i /\ y[2] = k
    OBVIOUS
  <2>2. \A j \in 1..2 : j = 1 \/ j = 2
    OBVIOUS
  <2> HIDE DEF y
  <2>3. Lines(y, p, y[1], y[2])
    BY <1>1, <1>2, <2>1, <2>2, ManyStatements
  <2>4. y[Len(y)].kind = "key"
    BY <1>2, <2>1, <2>3 DEF Lines
  <2>5. QED  BY <2>1, <2>3, <2>4 DEF Script, Closed
<1> HIDE DEF x, y
<1>5. Script(x \o y, p, Statement("column", "users", "user_role"), k)
  BY <1>3, <1>4, JoinScripts DEF Script
<1>6. QED  BY <1>5 DEF UserHierarchy, x, y, p, i, k

LEMMA Chain ==
  /\ Latest = 13
  /\ Upgrade[1] = Foundation /\ Upgrade[2] = PlatformConnections /\ Upgrade[3] = AiConfiguration
  /\ Upgrade[4] = InboxModule /\ Upgrade[5] = FacebookComments /\ Upgrade[6] = SocialPosts
  /\ Upgrade[7] = AsyncFoundation /\ Upgrade[8] = Observability /\ Upgrade[9] = BillingPlans
  /\ Upgrade[10] = <<JobTypes>> \o AutomationWorkflows
  /\ Upgrade[11] = RbacTables \o FeatureTables \o TokenTables
  /\ Upgrade[12] = TokenWalletFoundation /\ Upgrade[13] = UserHierarchy
<1> DEFINE ten == <<JobTypes>> \o AutomationWorkflows
           eleven == RbacTables \o FeatureTables \o TokenTables
<1>1. Upgrade = <<Foundation, PlatformConnections, AiConfiguration, InboxModule, FacebookComments,
                  SocialPosts, AsyncFoundation, Observability, BillingPlans, ten, eleven,
                  TokenWalletFoundation, UserHierarchy>>
  BY DEF Upgrade
<1> HIDE DEF ten, eleven
<1>2. QED  BY <1>1 DEF Latest, ten, eleven

Revision(r, first, last) == Script(Upgrade[r], Parts[r], first, last)

LEMMA Revisions ==
  /\ Revision(1, Statement("table", "accounts", "id"),
                  Statement("index", "refresh_tokens", "user_id"))
  /\ Revision(2, Statement("table", "platform_connections", "id"),
                  Statement("index", "platform_connections", "account_id"))
  /\ Revision(3, Statement("table", "ai_agents", "id"),
                  Statement("index", "faq_knowledge", "ai_agent_id"))
  /\ Revision(4, Statement("table", "conversations", "id"),
                  Statement("index", "messages", "created_by_user_id"))
  /\ Revision(5, Statement("table", "facebook_comments", "id"),
                  Statement("index", "facebook_comment_replies", "created_by_user_id"))
  /\ Revision(6, Statement("table", "social_posts", "id"),
                  Statement("index", "social_posts", "rejected_by_user_id"))
  /\ Revision(7, Statement("column", "accounts", "token_balance"),
                  Statement("index", "sync_jobs", "platform_connection_id"))
  /\ Revision(8, Statement("table", "action_usage_logs", "id"),
                  Statement("index", "audit_logs", "actor_user_id"))
  /\ Revision(9, Statement("table", "billing_plans", "id"),
                  Statement("index", "account_subscriptions", "billing_plan_id"))
  /\ Revision(10, JobTypes, Statement("index", "automation_workflows", "ai_agent_id"))
  /\ Revision(11, Statement("table", "roles", "id"),
                  Statement("index", "token_ledger", "billing_transaction_id"))
  /\ Revision(12, Statement("column", "billing_plans", "setup_fee_usd"),
                  Statement("column", "token_ledger", "is_expired"))
  /\ Revision(13, Statement("column", "users", "user_role"),
                  Statement("key", "users", "managed_by_user_id"))
<1>1. Revision(1, Statement("table", "accounts", "id"),
                 Statement("index", "refresh_tokens", "user_id"))
  <2> DEFINE p == Parts[1]
  <2>1. <<"table", "accounts">> \in p /\ <<"table", "users">> \in p /\ <<"table",
        "memberships">> \in p /\ <<"table", "onboarding_keys">> \in p /\ <<"table",
        "refresh_tokens">> \in p
    BY DEF Parts
  <2> HIDE DEF p
  <2>2. QED  BY <2>1, FoundationScript, Chain DEF Revision, p
<1>2. Revision(2, Statement("table", "platform_connections", "id"),
                 Statement("index", "platform_connections", "account_id"))
  <2> DEFINE p == Parts[2]
  <2>1. <<"table", "platform_connections">> \in p
    BY DEF Parts
  <2> HIDE DEF p
  <2>2. QED  BY <2>1, PlatformConnectionsScript, Chain DEF Revision, p
<1>3. Revision(3, Statement("table", "ai_agents", "id"),
                 Statement("index", "faq_knowledge", "ai_agent_id"))
  <2> DEFINE p == Parts[3]
  <2>1. <<"table", "ai_agents">> \in p /\ <<"table", "ai_prompts">> \in p /\ <<"table",
        "ai_knowledge_sources">> \in p /\ <<"table", "faq_knowledge">> \in p
    BY DEF Parts
  <2> HIDE DEF p
  <2>2. QED  BY <2>1, AiConfigurationScript, Chain DEF Revision, p
<1>4. Revision(4, Statement("table", "conversations", "id"),
                 Statement("index", "messages", "created_by_user_id"))
  <2> DEFINE p == Parts[4]
  <2>1. <<"table", "conversations">> \in p /\ <<"table", "messages">> \in p
    BY DEF Parts
  <2> HIDE DEF p
  <2>2. QED  BY <2>1, InboxModuleScript, Chain DEF Revision, p
<1>5. Revision(5, Statement("table", "facebook_comments", "id"),
                 Statement("index", "facebook_comment_replies", "created_by_user_id"))
  <2> DEFINE p == Parts[5]
  <2>1. <<"table", "facebook_comments">> \in p /\ <<"table", "facebook_comment_replies">> \in p
    BY DEF Parts
  <2> HIDE DEF p
  <2>2. QED  BY <2>1, FacebookCommentsScript, Chain DEF Revision, p
<1>6. Revision(6, Statement("table", "social_posts", "id"),
                 Statement("index", "social_posts", "rejected_by_user_id"))
  <2> DEFINE p == Parts[6]
  <2>1. <<"table", "social_posts">> \in p
    BY DEF Parts
  <2> HIDE DEF p
  <2>2. QED  BY <2>1, SocialPostsScript, Chain DEF Revision, p
<1>7. Revision(7, Statement("column", "accounts", "token_balance"),
                 Statement("index", "sync_jobs", "platform_connection_id"))
  <2> DEFINE p == Parts[7]
  <2>1. <<"column", "accounts">> \in p /\ <<"table", "webhook_events">> \in p /\ <<"table",
        "sync_jobs">> \in p
    BY DEF Parts
  <2> HIDE DEF p
  <2>2. QED  BY <2>1, AsyncFoundationScript, Chain DEF Revision, p
<1>8. Revision(8, Statement("table", "action_usage_logs", "id"),
                 Statement("index", "audit_logs", "actor_user_id"))
  <2> DEFINE p == Parts[8]
  <2>1. <<"table", "action_usage_logs">> \in p /\ <<"table", "llm_token_usage">> \in p /\
        <<"table", "audit_logs">> \in p
    BY DEF Parts
  <2> HIDE DEF p
  <2>2. QED  BY <2>1, ObservabilityScript, Chain DEF Revision, p
<1>9. Revision(9, Statement("table", "billing_plans", "id"),
                 Statement("index", "account_subscriptions", "billing_plan_id"))
  <2> DEFINE p == Parts[9]
  <2>1. <<"table", "billing_plans">> \in p /\ <<"table", "account_subscriptions">> \in p
    BY DEF Parts
  <2> HIDE DEF p
  <2>2. QED  BY <2>1, BillingPlansScript, Chain DEF Revision, p
<1>10. Revision(10, JobTypes, Statement("index", "automation_workflows", "ai_agent_id"))
  <2> DEFINE p == Parts[10]
  <2>1. <<"enum", "sync_jobs">> \in p /\ <<"table", "automation_workflows">> \in p
    BY DEF Parts
  <2>2. Part(JobTypes) = <<"enum", "sync_jobs">>
    BY StatementParts DEF JobTypes
  <2> HIDE DEF p
  <2>3. Lines(<<JobTypes>>, p, JobTypes, JobTypes)
    BY <2>1, <2>2, OneStatement
  <2>4. QED  BY <2>1, <2>3, AutomationWorkflowsScript, JoinScripts, Chain DEF Revision, p
<1>11. Revision(11, Statement("table", "roles", "id"),
                 Statement("index", "token_ledger", "billing_transaction_id"))
  <2> DEFINE p == Parts[11]
  <2>1. <<"table", "roles">> \in p /\ <<"table", "permissions">> \in p /\ <<"table",
        "role_permissions">> \in p /\ <<"table", "account_users">> \in p /\ <<"table",
        "feature_catalog">> \in p /\ <<"table", "plan_features">> \in p /\ <<"table",
        "account_subscription_feature_snapshot">> \in p /\ <<"table",
        "token_purchase_packages">> \in p /\ <<"table", "token_wallets">> \in p /\ <<"table",
        "billing_transactions">> \in p /\ <<"table", "token_ledger">> \in p
    BY DEF Parts
  <2> HIDE DEF p
  <2>2. Script(RbacTables, p, Statement("table", "roles", "id"),
               Statement("index", "account_users", "role_id"))
    BY <2>1, RbacTablesScript
  <2>3. Script(FeatureTables, p, Statement("table", "feature_catalog", "id"),
               Statement("index", "account_subscription_feature_snapshot", "feature_catalog_id"))
    BY <2>1, FeatureTablesScript
  <2>4. Script(TokenTables, p, Statement("table", "token_purchase_packages", "id"),
               Statement("index", "token_ledger", "billing_transaction_id"))
    BY <2>1, TokenTablesScript
  <2>5. Script(RbacTables \o FeatureTables, p, Statement("table", "roles", "id"),
               Statement("index", "account_subscription_feature_snapshot", "feature_catalog_id"))
    BY <2>2, <2>3, JoinScripts DEF Script
  <2>6. Script(RbacTables \o FeatureTables \o TokenTables, p, Statement("table", "roles", "id"),
               Statement("index", "token_ledger", "billing_transaction_id"))
    BY <2>4, <2>5, JoinScripts DEF Script
  <2>7. QED  BY <2>6, Chain DEF Revision, p
<1>12. Revision(12, Statement("column", "billing_plans", "setup_fee_usd"),
                 Statement("column", "token_ledger", "is_expired"))
  <2> DEFINE p == Parts[12]
  <2>1. <<"column", "billing_plans">> \in p /\ <<"column", "token_ledger">> \in p
    BY DEF Parts
  <2> HIDE DEF p
  <2>2. QED  BY <2>1, TokenWalletFoundationScript, Chain DEF Revision, p
<1>13. Revision(13, Statement("column", "users", "user_role"),
                 Statement("key", "users", "managed_by_user_id"))
  BY Chain, UserHierarchyScript DEF Revision, Parts
<1>14. QED  BY <1>1, <1>2, <1>3, <1>4, <1>5, <1>6, <1>7, <1>8, <1>9, <1>10, <1>11, <1>12, <1>13

LEMMA RevisionLines ==
  ASSUME NEW r \in 1..13
  PROVE  LET x == Upgrade[r]
         IN  /\ \E S : x \in Seq(S)
             /\ Len(x) \in Nat /\ Len(x) >= 1 /\ DOMAIN x = 1..Len(x)
             /\ \A i \in 1..Len(x) : x[i].kind = "index" \/ Part(x[i]) \in Parts[r]
<1>1. \E f, l : Revision(r, f, l)
  <2>1. r = 1 \/ r = 2 \/ r = 3 \/ r = 4 \/ r = 5 \/ r = 6 \/ r = 7 \/ r = 8 \/ r = 9 \/ r = 10
        \/ r = 11 \/ r = 12 \/ r = 13
    OBVIOUS
  <2>2. QED  BY <2>1, Revisions
<1>2. PICK S : Upgrade[r] \in Seq(S)
  BY <1>1 DEF Revision, Script, Lines
<1>3. QED  BY <1>1, <1>2 DEF Revision, Script, Lines

(***************************************************************************)
(* The first statement of a revision that cannot be repeated, and the      *)
(* last, which its downgrade() starts with.                                *)
(***************************************************************************)
FirstAt(r) == IF r = 10 THEN 2 ELSE 1
Opening(r) == Upgrade[r][FirstAt(r)]
LastAt(r) == Len(Upgrade[r])
Closing(r) == Upgrade[r][LastAt(r)]

LEMMA Prepended ==
  ASSUME NEW S, NEW s \in S, NEW v \in Seq(S)
  PROVE  LET x == <<s>> \o v
         IN  /\ x \in Seq(S) /\ Len(x) = 1 + Len(v) /\ x[1] = s
             /\ \A i \in 1..Len(v) : x[i + 1] = v[i]
<1> DEFINE j == <<s>>
<1>1. j \in Seq(S) /\ Len(j) = 1 /\ j[1] = s
  OBVIOUS
<1> HIDE DEF j
<1>2. /\ j \o v \in Seq(S) /\ Len(j \o v) = Len(j) + Len(v)
      /\ \A i \in 1..Len(j) : (j \o v)[i] = j[i]
      /\ \A i \in (Len(j) + 1)..Len(j \o v) : (j \o v)[i] = v[i - Len(j)]
  BY <1>1, Joined
<1> DEFINE x == j \o v
<1> HIDE DEF x
<1>3. Len(v) \in Nat /\ x \in Seq(S) /\ Len(x) = 1 + Len(v) /\ x[1] = s
  BY <1>1, <1>2 DEF x
<1>4. ASSUME NEW i \in 1..Len(v) PROVE x[i + 1] = v[i]
  <2>1. i + 1 \in (Len(j) + 1)..Len(j \o v) /\ (i + 1) - Len(j) = i
    BY <1>1, <1>2, <1>3
  <2>2. QED  BY <1>2, <2>1 DEF x
<1>5. QED  BY <1>3, <1>4 DEF j, x

LEMMA TenLines ==
  /\ LastAt(10) >= 2 /\ Upgrade[10][1] = JobTypes
  /\ Opening(10) = Statement("table", "automation_workflows", "id")
  /\ AutomationWorkflows = [i \in 1..(LastAt(10) - 1) |-> Upgrade[10][i + 1]]
<1> DEFINE y == AutomationWorkflows
           f == Statement("table", "automation_workflows", "id")
           p == Parts[10]
<1>1. /\ <<"table", "automation_workflows">> \in p
  BY DEF Parts
<1>2. \E l : Script(y, p, f, l)
  <2> HIDE DEF p, f
  <2>1. QED  BY <1>1, AutomationWorkflowsScript DEF f
<1>3. PICK S : y \in Seq(S)
  BY <1>2 DEF Script, Lines
<1>4. Len(y) >= 1 /\ y[1] = f
  BY <1>2 DEF Script, Lines
<1> HIDE DEF y, f
<1> DEFINE T == S \cup {JobTypes}
<1>5. y \in Seq(T) /\ JobTypes \in T
  BY <1>3
<1> HIDE DEF T
<1> DEFINE x == <<JobTypes>> \o y
<1>6. /\ Len(x) = 1 + Len(y) /\ x[1] = JobTypes
      /\ \A i \in 1..Len(y) : x[i + 1] = y[i]
  BY <1>5, Prepended
<1>7. x = Upgrade[10]
  BY Chain DEF y
<1> HIDE DEF x
<1>8. Len(y) \in Nat /\ y = [i \in 1..Len(y) |-> y[i]]
  BY <1>5
<1>9. Len(y) = Len(x) - 1
  BY <1>6, <1>8
<1>10. y = [i \in 1..(Len(x) - 1) |-> x[i + 1]]
  BY <1>6, <1>8, <1>9
<1>11. x[2] = f
  BY <1>4, <1>6
<1>12. LastAt(10) = Len(x) /\ Opening(10) = x[2]
  BY <1>7 DEF LastAt, FirstAt, Opening
<1>13. Len(x) >= 2
  BY <1>4, <1>6, <1>8
<1>14. QED  BY <1>6, <1>7, <1>10, <1>11, <1>12, <1>13 DEF y, f

LEMMA FirstStatement ==
  ASSUME NEW r \in 1..13
  PROVE  /\ FirstAt(r) \in 1..LastAt(r) /\ FirstAt(r) \in {1, 2}
         /\ Opening(r).kind \in {"table", "column"} /\ Part(Opening(r)) \in Parts[r]
<1>1. /\ LastAt(r) \in Nat /\ LastAt(r) >= 1
      /\ \A i \in 1..LastAt(r) : Upgrade[r][i].kind = "index" \/ Part(Upgrade[r][i]) \in Parts[r]
  BY RevisionLines DEF LastAt
<1>2. FirstAt(r) \in 1..LastAt(r) /\ FirstAt(r) \in {1, 2}
  BY <1>1, TenLines DEF FirstAt
<1>3. Opening(r).kind \in {"table", "column"}
  <2>1. CASE r = 10
    BY <2>1, TenLines, StatementParts
  <2>2. CASE r # 10
    <3>1. Opening(r) = Upgrade[r][1]
      BY <2>2 DEF Opening, FirstAt
    <3>2. \E t, c : Upgrade[r][1] = Statement("table", t, c)
                      \/ Upgrade[r][1] = Statement("column", t, c)
      <4>1. r = 1 \/ r = 2 \/ r = 3 \/ r = 4 \/ r = 5 \/ r = 6 \/ r = 7 \/ r = 8 \/ r = 9
            \/ r = 11 \/ r = 12 \/ r = 13
        BY <2>2
      <4>2. \A f, l : Revision(r, f, l) => Upgrade[r][1] = f
        BY DEF Revision, Script, Lines
      <4>3. QED  BY <4>1, <4>2, Revisions
    <3>3. QED  BY <3>1, <3>2, StatementParts
  <2>3. QED  BY <2>1, <2>2
<1>4. Part(Opening(r)) \in Parts[r]
  BY <1>1, <1>2, <1>3 DEF Opening
<1>5. QED  BY <1>2, <1>3, <1>4

\* Up to revision 11 the last statement creates an index of a foreign key, on a table
\* of the revision, that no unique constraint can replace.
LEMMA LastIndex ==
  ASSUME NEW r \in 1..11
  PROVE  /\ Closing(r).kind = "index" /\ Closing(r).col # "managed_by_user_id"
         /\ <<Closing(r).on, Closing(r).col>> \notin Spare
         /\ Closing(r) \in Statements
         /\ Statement("table", Closing(r).on, "id") \in TablesOf(r)
<1>1. \E t, c : /\ Closing(r) = Statement("index", t, c) /\ c # "managed_by_user_id"
                /\ <<t, c>> \notin Spare
  <2>1. r = 1 \/ r = 2 \/ r = 3 \/ r = 4 \/ r = 5 \/ r = 6 \/ r = 7 \/ r = 8 \/ r = 9 \/ r = 10
        \/ r = 11
    OBVIOUS
  <2>2. \A f, l : Revision(r, f, l) => Closing(r) = l
    BY DEF Revision, Script, Lines, Closing, LastAt
  <2>3. QED  BY <2>1, <2>2, Revisions DEF Spare
<1>2. PICK t, c : /\ Closing(r) = Statement("index", t, c) /\ c # "managed_by_user_id"
                  /\ <<t, c>> \notin Spare
  BY <1>1
<1>3. Closing(r).kind = "index" /\ Closing(r).on = t /\ Closing(r).col = c
  BY <1>2, StatementParts
<1>4. /\ LastAt(r) \in Nat /\ LastAt(r) >= 1 /\ DOMAIN Upgrade[r] = 1..LastAt(r)
  <2>1. r \in 1..13
    OBVIOUS
  <2>2. QED  BY <2>1, RevisionLines DEF LastAt
<1>5. Closing(r) \in ToSet(Upgrade[r])
  BY <1>4 DEF ToSet, Closing
<1>6. Closed(Upgrade[r])
  <2>1. r = 1 \/ r = 2 \/ r = 3 \/ r = 4 \/ r = 5 \/ r = 6 \/ r = 7 \/ r = 8 \/ r = 9 \/ r = 10
        \/ r = 11
    OBVIOUS
  <2>2. QED  BY <2>1, Revisions DEF Revision, Script
<1>7. PICK i \in 1..LastAt(r) : Upgrade[r][i] = Statement("table", t, "id")
  BY <1>3, <1>6 DEF Closed, Closing, LastAt
<1>8. Statement("table", t, "id") \in ToSet(Upgrade[r])
  BY <1>4, <1>7 DEF ToSet
<1>9. Statement("table", t, "id") \in TablesOf(r)
  BY <1>8, StatementParts DEF TablesOf
<1>10. Closing(r) \in Statements
  BY <1>5, Chain DEF Statements
<1>11. QED  BY <1>2, <1>3, <1>9, <1>10

\* The last two create no table; they end with a column and a key.
LEMMA LastTwoRevisions ==
  ASSUME NEW r \in {12, 13}
  PROVE  /\ FirstAt(r) = 1 /\ Closing(r).kind \in {"column", "key"} /\ Part(Closing(r)) \in Parts[r]
         /\ Closing(r) # Opening(r) /\ LastAt(r) # 1
         /\ \A i \in 1..LastAt(r) : Upgrade[r][i].kind # "table"
<1>1. \A f, l : Revision(r, f, l) => Opening(r) = f /\ Closing(r) = l
  BY DEF Revision, Script, Lines, Closing, LastAt, Opening, FirstAt
<1>2. /\ LastAt(r) \in Nat /\ LastAt(r) >= 1
      /\ \A i \in 1..LastAt(r) : Upgrade[r][i].kind = "index" \/ Part(Upgrade[r][i]) \in Parts[r]
  <2>1. r \in 1..13
    OBVIOUS
  <2>2. QED  BY <2>1, RevisionLines DEF LastAt
<1>3. \A s : Part(s) \in Parts[r] => s.kind # "table"
  BY DEF Part, Parts
<1>4. Closing(r).kind \in {"column", "key"} /\ Closing(r) # Opening(r)
  <2>1. CASE r = 12
    <3>1. /\ Opening(r) = Statement("column", "billing_plans", "setup_fee_usd")
          /\ Closing(r) = Statement("column", "token_ledger", "is_expired")
      BY <1>1, <2>1, Revisions
    <3>2. Opening(r).on = "billing_plans" /\ Closing(r).on = "token_ledger"
         /\ Closing(r).kind = "column"
      BY <3>1, StatementParts
    <3>3. QED  BY <3>2
  <2>2. CASE r = 13
    <3>1. /\ Opening(r) = Statement("column", "users", "user_role")
          /\ Closing(r) = Statement("key", "users", "managed_by_user_id")
      BY <1>1, <2>2, Revisions
    <3>2. Opening(r).kind = "column" /\ Closing(r).kind = "key"
      BY <3>1, StatementParts
    <3>3. QED  BY <3>2
  <2>3. QED  BY <2>1, <2>2
<1>5. LastAt(r) # 1 /\ FirstAt(r) = 1
  BY <1>4 DEF Closing, Opening, FirstAt
<1>6. Part(Closing(r)) \in Parts[r]
  <2>1. LastAt(r) \in 1..LastAt(r)
    BY <1>2
  <2>2. Closing(r).kind = "index" \/ Part(Closing(r)) \in Parts[r]
    BY <1>2, <2>1 DEF Closing
  <2>3. QED  BY <1>4, <2>2
<1>7. QED  BY <1>2, <1>3, <1>4, <1>5, <1>6

\* A downgrade() has the same statements, from the last.
LEMMA Undoing ==
  ASSUME NEW r \in 1..13
  PROVE  /\ Len(Downgrade(r)) = LastAt(r) /\ DOMAIN Downgrade(r) = 1..LastAt(r)
         /\ Downgrade(r)[FirstAt(r)] = Closing(r)
         /\ r = 10 => Downgrade(r)[1] = JobTypes
         /\ \A i \in 1..LastAt(r) : \E j \in 1..LastAt(r) : Downgrade(r)[i] = Upgrade[r][j]
<1>1. LastAt(r) \in Nat /\ LastAt(r) >= 1
  BY RevisionLines DEF LastAt
<1>2. CASE r # 10
  <2>1. Downgrade(r) = [i \in 1..LastAt(r) |-> Upgrade[r][(LastAt(r) - i) + 1]]
    BY <1>2 DEF Downgrade, Reverse, LastAt
  <2> DEFINE d == Downgrade(r)
             n == LastAt(r)
  <2> HIDE DEF d, n
  <2>2. d = [i \in 1..n |-> Upgrade[r][(n - i) + 1]]
    BY <2>1 DEF d, n
  <2>3. n \in Nat /\ n >= 1
    BY <1>1 DEF n
  <2>4. DOMAIN d = 1..n /\ \A i \in 1..n : d[i] = Upgrade[r][(n - i) + 1] /\ (n - i) + 1 \in 1..n
    BY <2>2, <2>3
  <2>5. Len(d) = n
    BY <2>2, <2>3
  <2>6. d[1] = Upgrade[r][n]
    BY <2>3, <2>4
  <2>7. FirstAt(r) = 1
    BY <1>2 DEF FirstAt
  <2>8. QED  BY <1>2, <2>4, <2>5, <2>6, <2>7 DEF d, n, Closing
<1>3. CASE r = 10
  <2> DEFINE y == AutomationWorkflows
             v == Reverse(AutomationWorkflows)
             n == LastAt(10) - 1
  <2>1. /\ LastAt(10) >= 2 /\ Upgrade[10][1] = JobTypes
        /\ y = [i \in 1..n |-> Upgrade[10][i + 1]]
    BY TenLines
  <2>2. n \in Nat /\ n >= 1 /\ LastAt(10) = n + 1
    BY <1>1, <1>3, <2>1
  <2> HIDE DEF y, n
  <2>3. Len(y) = n
    BY <2>1, <2>2
  <2>4. v = [i \in 1..Len(y) |-> y[(Len(y) - i) + 1]]
    BY DEF Reverse, y
  <2>5. v = [i \in 1..n |-> y[(n - i) + 1]]
    BY <2>3, <2>4
  <2>6. \A i \in 1..n : (n - i) + 1 \in 1..n /\ v[i] = Upgrade[10][((n - i) + 1) + 1]
    BY <2>1, <2>2, <2>5
  <2>7. v = [i \in 1..n |-> v[i]]
    BY <2>5
  <2> HIDE DEF v
  <2> DEFINE S == {v[i] : i \in 1..n} \cup {JobTypes}
             d == <<JobTypes>> \o v
  <2>8. \A i \in 1..n : v[i] \in S
    OBVIOUS
  <2>9. JobTypes \in S
    OBVIOUS
  <2> HIDE DEF S
  <2>10. v \in Seq(S) /\ Len(v) = n
    BY <2>2, <2>7, <2>8
  <2>11. /\ Len(d) = n + 1 /\ DOMAIN d = 1..(n + 1) /\ d[1] = JobTypes
         /\ \A i \in 1..n : d[i + 1] = v[i]
    <3>1. /\ d \in Seq(S) /\ Len(d) = 1 + Len(v) /\ d[1] = JobTypes
          /\ \A i \in 1..Len(v) : d[i + 1] = v[i]
      BY <2>9, <2>10, Prepended
    <3> HIDE DEF d
    <3>2. /\ Len(d) = n + 1 /\ \A i \in 1..n : d[i + 1] = v[i]
      BY <2>2, <2>10, <3>1
    <3>3. DOMAIN d = 1..(n + 1)
      <4>1. DOMAIN d = 1..Len(d)
        BY <3>1
      <4>2. QED  BY <3>2, <4>1
    <3>4. QED  BY <3>1, <3>2, <3>3
  <2>12. d = Downgrade(10)
    BY DEF Downgrade, v
  <2> HIDE DEF d
  <2>13. d[2] = Upgrade[10][n + 1]
    <3>1. d[2] = v[1] /\ 1 \in 1..n
      BY <2>2, <2>11
    <3>2. v[1] = Upgrade[10][((n - 1) + 1) + 1] /\ ((n - 1) + 1) + 1 = n + 1
      BY <2>2, <2>6, <3>1
    <3>3. QED  BY <3>1, <3>2
  <2>14. ASSUME NEW i \in 1..(n + 1) PROVE \E k \in 1..(n + 1) : d[i] = Upgrade[10][k]
    <3>1. CASE i = 1
      BY <2>1, <2>2, <2>11, <3>1
    <3>2. CASE i # 1
      <4>1. i - 1 \in 1..n /\ (i - 1) + 1 = i
        BY <2>2, <3>2
      <4>2. d[i] = v[i - 1]
        BY <2>11, <4>1
      <4>3. v[i - 1] = Upgrade[10][((n - (i - 1)) + 1) + 1] /\ (n - (i - 1)) + 1 \in 1..n
        BY <2>6, <4>1
      <4>4. ((n - (i - 1)) + 1) + 1 \in 1..(n + 1)
        BY <2>2, <4>3
      <4>5. QED  BY <4>2, <4>3, <4>4
    <3>3. QED  BY <3>1, <3>2
  <2>15. FirstAt(10) = 2
    BY DEF FirstAt
  <2>16. LastAt(10) = n + 1 /\ d[FirstAt(10)] = Closing(10)
    BY <2>2, <2>13, <2>15 DEF Closing
  <2>17. /\ Len(d) = LastAt(10) /\ DOMAIN d = 1..LastAt(10)
         /\ \A i \in 1..LastAt(10) : \E k \in 1..LastAt(10) : d[i] = Upgrade[10][k]
    BY <2>11, <2>14, <2>16
  <2>18. QED  BY <1>3, <2>11, <2>12, <2>16, <2>17
<1>4. QED  BY <1>2, <1>3

(***************************************************************************)
(* Why the version tells the truth.  An upgrade past its first lasting     *)
(* statement is the only one of its revision there can ever be: what that  *)
(* statement made is in the schema, so that no other command gets past it. *)
(* A downgrade gets past its first statement in the last two revisions     *)
(* only, which have no tables, and never twice.                            *)
(***************************************************************************)
Past(x) == x.at > FirstAt(x.rev)

UpFits(x, v, db) ==
  x.dir = "up" =>
    /\ x.rev <= v + 1
    /\ Past(x) => x.rev = v + 1
    /\ Past(x) \/ x.rev <= v => Opening(x.rev) \in db
    /\ \A i \in 1..(x.at - 1) :
         Upgrade[x.rev][i].kind = "table" => Upgrade[x.rev][i] \in db

DownFits(x, v, db, left) ==
  x.dir = "down" =>
    /\ x.rev = v
    /\ Past(x) => /\ x.rev \in {12, 13} /\ Closing(x.rev) \notin db
                  /\ [dir |-> "down", rev |-> x.rev] \notin left

TornFits(t, v, db, cmds) ==
  /\ t.dir = "up" =>
       /\ v < t.rev /\ Opening(t.rev) \in db
       /\ \A n \in Runners : cmds[n].dir = "up" /\ cmds[n].rev = t.rev => ~Past(cmds[n])
  /\ t.dir = "down" => t.rev \in {12, 13} /\ v >= t.rev /\ Closing(t.rev) \notin db

MigrationTypes ==
  /\ version \in 0..13
  /\ runner \in [Runners -> Runner]
  /\ torn \subseteq [dir : {"up", "down"}, rev : 1..13]
  /\ \A n \in Runners : runner[n].dir # "idle" =>
       runner[n].rev \in 1..13 /\ runner[n].at \in 1..(LastAt(runner[n].rev) + 1)
RunnersFit ==
  \A n \in Runners : /\ UpFits(runner[n], version, schema)
                     /\ DownFits(runner[n], version, schema, torn)
Ahead(x) == x.dir = "up" /\ Past(x)
OneUp == \A n, m \in Runners : Ahead(runner[n]) /\ Ahead(runner[m]) => n = m
DownAlone ==
  \A n, m \in Runners : runner[n].dir = "down" /\ m # n => runner[m].dir = "idle"
TornFit == \A t \in torn : TornFits(t, version, schema, runner)

MigrationInv ==
  MigrationTypes /\ RunnersFit /\ OneUp /\ DownAlone /\ TornFit /\ TablesMatchVersion

(***************************************************************************)
(* What a command finds.                                                   *)
(***************************************************************************)
LEMMA Thirteen == Latest = 13
  BY Chain

LEMMA AtFirst ==
  ASSUME NEW r \in 1..13
  PROVE  FirstAt(r) \in {1, 2} /\ FirstAt(r) \in 1..LastAt(r) /\ LastAt(r) \in Nat
         /\ (r # 10 => FirstAt(r) = 1) /\ FirstAt(10) = 2
<1>1. LastAt(r) \in Nat
  BY RevisionLines DEF LastAt
<1>2. QED  BY <1>1, FirstStatement DEF FirstAt

LEMMA PlanLength ==
  ASSUME MigrationTypes, NEW n \in Runners, runner[n].dir # "idle"
  PROVE  Len(Plan(n)) = LastAt(runner[n].rev)
<1>1. runner[n].rev \in 1..13
  BY DEF MigrationTypes
<1>2. QED  BY <1>1, Undoing DEF Plan, LastAt

LEMMA LineOf ==
  ASSUME NEW r \in 1..13, NEW i \in 1..LastAt(r)
  PROVE  Upgrade[r][i].kind = "index" \/ Part(Upgrade[r][i]) \in Parts[r]
  BY RevisionLines DEF LastAt

LEMMA TableOf ==
  ASSUME NEW r \in 1..13, NEW s \in TablesOf(r)
  PROVE  /\ s.kind = "table" /\ Part(s) \in Parts[r]
         /\ \E i \in 1..LastAt(r) : s = Upgrade[r][i]
<1>1. DOMAIN Upgrade[r] = 1..LastAt(r)
  BY RevisionLines DEF LastAt
<1>2. s.kind = "table" /\ \E i \in 1..LastAt(r) : s = Upgrade[r][i]
  BY <1>1 DEF TablesOf, ToSet
<1>3. QED  BY <1>2, LineOf

\* A statement that no revision repeats is created once.
LEMMA OpeningIsNew ==
  ASSUME NEW r \in 1..13, CanCreate(Opening(r))
  PROVE  Opening(r) \notin schema
<1>1. Opening(r).kind \in {"table", "column"}
  BY FirstStatement
<1>2. QED  BY <1>1 DEF CanCreate

\* The statement an upgrade executes.
LEMMA UpStatement ==
  ASSUME MigrationInv, NEW n \in Runners, runner[n].dir = "up",
         runner[n].at <= LastAt(runner[n].rev),
         CanCreate(Upgrade[runner[n].rev][runner[n].at])
  PROVE  LET x == runner[n] IN
         /\ x.at \in 1..LastAt(x.rev)
         /\ x.at + 1 > FirstAt(x.rev) /\ ~Past(x) =>
              /\ Upgrade[x.rev][x.at] = Opening(x.rev) /\ Opening(x.rev) \notin schema
              /\ x.rev = version + 1
<1> DEFINE x == runner[n]
<1>1. x.rev \in 1..13 /\ x.at \in 1..(LastAt(x.rev) + 1) /\ version \in 0..13
  BY DEF MigrationInv, MigrationTypes
<1>2. x.at \in 1..LastAt(x.rev)
  BY <1>1, AtFirst
<1>3. ASSUME x.at + 1 > FirstAt(x.rev), ~Past(x)
      PROVE  /\ Upgrade[x.rev][x.at] = Opening(x.rev) /\ Opening(x.rev) \notin schema
             /\ x.rev = version + 1
  <2>1. x.at = FirstAt(x.rev)
    BY <1>1, <1>3, AtFirst DEF Past
  <2>2. Upgrade[x.rev][x.at] = Opening(x.rev) /\ Opening(x.rev) \notin schema
    BY <1>1, <2>1, OpeningIsNew DEF Opening
  <2>3. UpFits(x, version, schema)
    BY DEF MigrationInv, RunnersFit
  <2>4. x.rev <= version + 1 /\ ~(x.rev <= version)
    BY <2>2, <2>3 DEF UpFits
  <2>5. QED  BY <1>1, <2>2, <2>4
<1>4. QED  BY <1>2, <1>3

\* The statement a downgrade executes: up to revision 11 there is none, but for the
\* change of job_type.
LEMMA DownStatement ==
  ASSUME MigrationInv, NEW n \in Runners, runner[n].dir = "down",
         runner[n].at <= LastAt(runner[n].rev),
         CanDrop(Downgrade(runner[n].rev)[runner[n].at])
  PROVE  LET x == runner[n]
             s == Downgrade(x.rev)[x.at]
         IN  /\ s.kind # "table" /\ x.rev = version
             /\ \/ x.rev = 10 /\ x.at = 1 /\ s.kind = "enum"
                \/ /\ x.rev \in {12, 13}
                   /\ s.kind = "index" \/ Part(s) \in Parts[x.rev]
                   /\ x.at = 1 => s = Closing(x.rev) /\ s \in schema
<1> DEFINE x == runner[n]
           s == Downgrade(x.rev)[x.at]
<1>1. x.rev \in 1..13 /\ x.at \in 1..(LastAt(x.rev) + 1) /\ version \in 0..13
  BY DEF MigrationInv, MigrationTypes
<1>2. x.at \in 1..LastAt(x.rev)
  BY <1>1, AtFirst
<1>3. x.rev = version /\ (Past(x) => x.rev \in {12, 13})
  BY DEF MigrationInv, RunnersFit, DownFits
<1>4. PICK j \in 1..LastAt(x.rev) : s = Upgrade[x.rev][j]
  BY <1>1, <1>2, Undoing
<1>5. CASE x.rev \in {12, 13}
  <2>1. s.kind # "table" /\ (s.kind = "index" \/ Part(s) \in Parts[x.rev])
    BY <1>1, <1>4, <1>5, LastTwoRevisions, LineOf
  <2>2. FirstAt(x.rev) = 1 /\ Closing(x.rev).kind \in {"column", "key"}
    BY <1>5, LastTwoRevisions
  <2>3. ASSUME x.at = 1 PROVE s = Closing(x.rev) /\ s \in schema
    <3>1. s = Closing(x.rev)
      BY <1>1, <2>2, <2>3, Undoing
    <3>2. s \in schema
      BY <2>2, <3>1 DEF CanDrop
    <3>3. QED  BY <3>1, <3>2
  <2>4. QED  BY <1>3, <1>5, <2>1, <2>3
<1>6. CASE x.rev \notin {12, 13}
  <2>1. x.rev \in 1..11 /\ ~Past(x)
    BY <1>1, <1>3, <1>6
  <2>2. x.at # FirstAt(x.rev)
    <3>1. SUFFICES ASSUME x.at = FirstAt(x.rev) PROVE FALSE
      OBVIOUS
    <3>2. s = Closing(x.rev)
      BY <1>1, <3>1, Undoing
    <3>3. /\ s.kind = "index" /\ s.col # "managed_by_user_id" /\ <<s.on, s.col>> \notin Spare
          /\ s \in Statements /\ Statement("table", s.on, "id") \in TablesOf(x.rev)
      BY <2>1, <3>2, LastIndex
    <3>4. HasTable(s.on)
      BY <1>1, <1>3, <3>3 DEF MigrationInv, TablesMatchVersion, HasTable
    <3>5. Needed(s)
      BY <3>3, <3>4 DEF Needed, Referring
    <3>6. QED  BY <3>3, <3>5 DEF CanDrop
  <2>3. x.rev = 10 /\ x.at = 1
    BY <1>1, <2>1, <2>2, AtFirst DEF Past
  <2>4. s = JobTypes
    BY <1>1, <2>3, Undoing
  <2>5. s.kind = "enum"
    BY <2>4, StatementParts DEF JobTypes
  <2>6. QED  BY <1>3, <2>3, <2>5
<1>7. QED  BY <1>5, <1>6

\* What a command leaves behind when it stops.
LEMMA TearsPast ==
  ASSUME MigrationTypes, NEW n \in Runners, runner[n].dir # "idle", NEW t \in Tears(n)
  PROVE  t = [dir |-> runner[n].dir, rev |-> runner[n].rev] /\ Past(runner[n])
<1> DEFINE x == runner[n]
           done == {Plan(n)[i] : i \in 1..(x.at - 1)}
<1>1. x.rev \in 1..13 /\ x.at \in 1..(LastAt(x.rev) + 1)
  BY DEF MigrationTypes
<1>2. done \ {JobTypes} # {} /\ t = [dir |-> x.dir, rev |-> x.rev]
  BY DEF Tears
<1>3. ASSUME ~Past(x) PROVE FALSE
  <2>1. x.at <= FirstAt(x.rev) /\ x.at \in Nat /\ x.at >= 1
    BY <1>1, <1>3, AtFirst DEF Past
  <2>2. PICK i \in 1..(x.at - 1) : Plan(n)[i] # JobTypes
    BY <1>2
  <2>3. x.rev = 10 /\ i = 1
    BY <1>1, <2>1, <2>2, AtFirst
  <2>4. Plan(n)[1] = JobTypes
    <3>1. Plan(n) = Upgrade[10] \/ Plan(n) = Downgrade(10)
      BY <2>3 DEF Plan
    <3>2. Upgrade[10][1] = JobTypes /\ Downgrade(10)[1] = JobTypes
      BY TenLines, Undoing
    <3>3. QED  BY <3>1, <3>2
  <2>5. QED  BY <2>2, <2>3, <2>4
<1>4. QED  BY <1>2, <1>3

(***************************************************************************)
(* The steps.                                                              *)
(***************************************************************************)
\* A command that is not past its first lasting statement and holds no tables yet.
Harmless(x, v, db) ==
  /\ x \in Runner
  /\ x.dir # "idle" => x.rev \in 1..13 /\ x.at = 1
  /\ x.dir = "up" => x.rev = v + 1
  /\ x.dir = "down" => x.rev = v

LEMMA HarmlessFits ==
  ASSUME NEW x, NEW v \in 0..13, NEW db, NEW left, Harmless(x, v, db)
  PROVE  /\ UpFits(x, v, db) /\ DownFits(x, v, db, left)
         /\ x.dir # "idle" => ~Past(x) /\ x.at \in 1..(LastAt(x.rev) + 1)
<1>1. CASE x.dir = "idle"
  BY <1>1 DEF UpFits, DownFits
<1>2. CASE x.dir # "idle"
  <2>1. x.rev \in 1..13 /\ x.at = 1
    BY <1>2 DEF Harmless
  <2>2. ~Past(x) /\ x.at \in 1..(LastAt(x.rev) + 1) /\ 1..(x.at - 1) = {}
    BY <2>1, AtFirst DEF Past
  <2>3. QED  BY <2>1, <2>2 DEF UpFits, DownFits, Harmless
<1>3. QED  BY <1>1, <1>2

LEMMA BeginStep ==
  ASSUME MigrationInv, NEW n \in Runners, Begin(n)
  PROVE  MigrationInv'
<1>1. /\ version \in 0..13 /\ runner \in [Runners -> Runner]
      /\ torn \subseteq [dir : {"up", "down"}, rev : 1..13]
  BY DEF MigrationInv, MigrationTypes
<1>2. PICK x \in Runner :
        /\ Harmless(x, version, schema) /\ runner' = [runner EXCEPT ![n] = x] /\ x.dir # "idle"
        /\ x.dir = "down" => \A m \in Runners : runner[m].dir = "idle"
  <2>1. CASE version < Latest
             /\ runner' = [runner EXCEPT ![n] = [dir |-> "up", rev |-> version + 1, at |-> 1]]
    <3> DEFINE x == [dir |-> "up", rev |-> version + 1, at |-> 1]
    <3>1. x \in Runner /\ x.dir = "up" /\ x.rev = version + 1 /\ x.at = 1 /\ x.rev \in 1..13
      BY <1>1, <2>1, Thirteen DEF Runner
    <3> HIDE DEF x
    <3>2. Harmless(x, version, schema)
      BY <3>1 DEF Harmless
    <3>3. runner' = [runner EXCEPT ![n] = x]
      BY <2>1 DEF x
    <3>4. QED  BY <3>1, <3>2, <3>3
  <2>2. CASE /\ version > 0 /\ \A m \in Runners : runner[m].dir = "idle"
             /\ runner' = [runner EXCEPT ![n] = [dir |-> "down", rev |-> version, at |-> 1]]
    <3> DEFINE x == [dir |-> "down", rev |-> version, at |-> 1]
    <3>1. x \in Runner /\ x.dir = "down" /\ x.rev = version /\ x.at = 1 /\ x.rev \in 1..13
      BY <1>1, <2>2, Thirteen DEF Runner
    <3> HIDE DEF x
    <3>2. Harmless(x, version, schema)
      BY <3>1 DEF Harmless
    <3>3. runner' = [runner EXCEPT ![n] = x]
      BY <2>2 DEF x
    <3>4. QED  BY <2>2, <3>1, <3>2, <3>3
  <2>3. QED  BY <2>1, <2>2 DEF Begin
<1>3. /\ schema' = schema /\ version' = version /\ torn' = torn
      /\ runner[n].dir = "idle" /\ \A m \in Runners : runner[m].dir # "down"
  BY DEF Begin
<1>4. /\ runner' \in [Runners -> Runner] /\ runner'[n] = x
      /\ \A m \in Runners : m # n => runner'[m] = runner[m]
  BY <1>1, <1>2
<1>5. /\ \A left : UpFits(x, version, schema) /\ DownFits(x, version, schema, left)
      /\ ~Past(x) /\ x.at \in 1..(LastAt(x.rev) + 1) /\ x.rev \in 1..13
  BY <1>1, <1>2, HarmlessFits DEF Harmless
<1>6. MigrationTypes'
  BY <1>1, <1>3, <1>4, <1>5 DEF MigrationInv, MigrationTypes
<1>7. RunnersFit'
  BY <1>3, <1>4, <1>5 DEF MigrationInv, RunnersFit
<1>8. OneUp'
  BY <1>4, <1>5 DEF MigrationInv, OneUp, Ahead
<1>9. DownAlone'
  BY <1>2, <1>3, <1>4 DEF MigrationInv, DownAlone
<1>10. TornFit'
  BY <1>3, <1>4, <1>5 DEF MigrationInv, TornFit, TornFits
<1>11. TablesMatchVersion'
  BY <1>3 DEF MigrationInv, TablesMatchVersion
<1>12. QED  BY <1>6, <1>7, <1>8, <1>9, <1>10, <1>11 DEF MigrationInv

LEMMA StopStep ==
  ASSUME MigrationInv, NEW n \in Runners, Stop(n)
  PROVE  MigrationInv'
<1> DEFINE x == runner[n]
<1>1. /\ version \in 0..13 /\ runner \in [Runners -> Runner]
      /\ torn \subseteq [dir : {"up", "down"}, rev : 1..13]
      /\ x.dir # "idle" /\ x.rev \in 1..13 /\ x.dir \in {"up", "down", "idle"}
  BY DEF MigrationInv, MigrationTypes, Stop, Runner
<1>2. Stopped \in Runner /\ Stopped.dir = "idle"
  BY Thirteen DEF Stopped, Runner
<1>3. /\ runner' \in [Runners -> Runner] /\ runner'[n] = Stopped
      /\ \A m \in Runners : m # n => runner'[m] = runner[m]
      /\ schema' = schema /\ version' = version /\ torn' = torn \cup Tears(n)
  BY <1>1, <1>2 DEF Stop
<1>4. \A t \in Tears(n) : t = [dir |-> x.dir, rev |-> x.rev] /\ Past(x)
  BY <1>1, TearsPast DEF MigrationInv
<1>5. MigrationTypes'
  <2>1. torn' \subseteq [dir : {"up", "down"}, rev : 1..13]
    BY <1>1, <1>3, <1>4
  <2>2. QED  BY <1>1, <1>2, <1>3, <2>1 DEF MigrationInv, MigrationTypes
<1>6. UpFits(x, version, schema) /\ DownFits(x, version, schema, torn)
  BY DEF MigrationInv, RunnersFit
<1>7. RunnersFit'
  <2>1. ASSUME NEW m \in Runners, m # n
        PROVE  UpFits(runner[m], version, schema) /\ DownFits(runner[m], version, schema, torn')
    <3>1. UpFits(runner[m], version, schema) /\ DownFits(runner[m], version, schema, torn)
      BY DEF MigrationInv, RunnersFit
    <3>2. runner[m].dir # "down"
      BY <1>1, <2>1 DEF MigrationInv, DownAlone
    <3>3. QED  BY <3>1, <3>2 DEF DownFits
  <2>2. UpFits(Stopped, version, schema) /\ DownFits(Stopped, version, schema, torn')
    BY <1>2 DEF UpFits, DownFits
  <2>3. QED  BY <1>3, <2>1, <2>2 DEF RunnersFit
<1>8. OneUp' /\ DownAlone'
  BY <1>2, <1>3 DEF MigrationInv, OneUp, Ahead, DownAlone
<1>9. TornFit'
  <2>1. ASSUME NEW t \in torn PROVE TornFits(t, version, schema, runner')
    <3>1. TornFits(t, version, schema, runner)
      BY DEF MigrationInv, TornFit
    <3>2. QED  BY <1>2, <1>3, <3>1 DEF TornFits
  <2>2. ASSUME NEW t \in Tears(n) PROVE TornFits(t, version, schema, runner')
    <3>1. t.dir = x.dir /\ t.rev = x.rev /\ Past(x)
      BY <1>4
    <3>2. CASE x.dir = "up"
      <4>1. x.rev = version + 1 /\ Opening(x.rev) \in schema
        BY <1>6, <3>1, <3>2 DEF UpFits
      <4>2. \A m \in Runners : m # n /\ runner[m].dir = "up" => ~Past(runner[m])
        BY <3>1, <3>2 DEF MigrationInv, OneUp, Ahead
      <4>3. version < x.rev
        BY <1>1, <4>1
      <4>4. QED  BY <1>2, <1>3, <3>1, <3>2, <4>1, <4>2, <4>3 DEF TornFits
    <3>3. CASE x.dir = "down"
      <4>1. x.rev = version /\ x.rev \in {12, 13} /\ Closing(x.rev) \notin schema
        BY <1>6, <3>1, <3>3 DEF DownFits
      <4>2. version >= x.rev
        BY <1>1, <4>1
      <4>3. QED  BY <3>1, <3>3, <4>1, <4>2 DEF TornFits
    <3>4. QED  BY <1>1, <3>2, <3>3
  <2>3. QED  BY <1>3, <2>1, <2>2 DEF TornFit
<1>10. TablesMatchVersion'
  BY <1>3 DEF MigrationInv, TablesMatchVersion
<1>11. QED  BY <1>5, <1>7, <1>8, <1>9, <1>10 DEF MigrationInv

\* A stamp comes after the last statement, so past the first.
LEMMA FinishedIsPast ==
  ASSUME MigrationInv, NEW n \in Runners, runner[n].dir # "idle", Finished(n)
  PROVE  Past(runner[n]) /\ runner[n].at > LastAt(runner[n].rev)
<1>1. runner[n].rev \in 1..13 /\ runner[n].at \in 1..(LastAt(runner[n].rev) + 1)
  BY DEF MigrationInv, MigrationTypes
<1>2. runner[n].at > LastAt(runner[n].rev)
  BY PlanLength DEF Finished, MigrationInv
<1>3. QED  BY <1>1, <1>2, AtFirst DEF Past

LEMMA StampUpStep ==
  ASSUME MigrationInv, NEW n \in Runners, Stamp(n), runner[n].dir = "up"
  PROVE  MigrationInv'
<1> DEFINE r == runner[n].rev
           x == IF r < Latest THEN [dir |-> "up", rev |-> r + 1, at |-> 1] ELSE Stopped
<1>1. /\ version \in 0..13 /\ runner \in [Runners -> Runner]
      /\ torn \subseteq [dir : {"up", "down"}, rev : 1..13] /\ r \in 1..13
  BY DEF MigrationInv, MigrationTypes
<1>2. /\ version = r - 1 /\ version' = r /\ schema' = schema /\ torn' = torn
      /\ runner' = [runner EXCEPT ![n] = x]
  BY DEF Stamp
<1>3. Past(runner[n]) /\ runner[n].at > LastAt(r)
  BY FinishedIsPast DEF Stamp
<1>4. Harmless(x, r, schema) /\ x \in Runner /\ x.dir \in {"up", "idle"}
  <2>1. CASE r < Latest
    <3>1. x = [dir |-> "up", rev |-> r + 1, at |-> 1]
      BY <2>1
    <3> HIDE DEF x
    <3>2. x \in Runner /\ x.dir = "up" /\ x.rev = r + 1 /\ x.at = 1 /\ r + 1 \in 1..13
      BY <1>1, <2>1, <3>1, Thirteen DEF Runner
    <3>3. QED  BY <3>2 DEF Harmless
  <2>2. CASE ~(r < Latest)
    <3>1. x = Stopped
      BY <2>2
    <3>2. Stopped \in Runner /\ Stopped.dir = "idle"
      BY Thirteen DEF Stopped, Runner
    <3>3. QED  BY <3>1, <3>2 DEF Harmless
  <2>3. QED  BY <2>1, <2>2
<1> HIDE DEF x
<1>5. /\ runner' \in [Runners -> Runner] /\ runner'[n] = x
      /\ \A m \in Runners : m # n => runner'[m] = runner[m]
  BY <1>1, <1>2, <1>4
<1>6. /\ \A left : UpFits(x, r, schema) /\ DownFits(x, r, schema, left)
      /\ x.dir # "idle" => ~Past(x) /\ x.at \in 1..(LastAt(x.rev) + 1) /\ x.rev \in 1..13
  <2>1. r \in 0..13
    BY <1>1
  <2>2. QED  BY <1>4, <2>1, HarmlessFits DEF Harmless
<1>7. MigrationTypes'
  <2>1. version' \in 0..13
    BY <1>1, <1>2
  <2>2. QED  BY <1>1, <1>2, <1>5, <1>6, <2>1 DEF MigrationInv, MigrationTypes
<1>8. UpFits(runner[n], version, schema)
  BY DEF MigrationInv, RunnersFit
<1>9. Opening(r) \in schema
  BY <1>3, <1>8 DEF UpFits
<1>10. RunnersFit'
  <2>1. ASSUME NEW m \in Runners, m # n
        PROVE  UpFits(runner[m], r, schema) /\ DownFits(runner[m], r, schema, torn)
    <3>1. UpFits(runner[m], version, schema)
      BY DEF MigrationInv, RunnersFit
    <3>2. runner[m].dir # "down" /\ (runner[m].dir = "up" => ~Past(runner[m]))
      BY <1>3, <2>1 DEF MigrationInv, DownAlone, OneUp, Ahead
    <3>3. runner[m].dir = "up" => runner[m].rev \in 1..13
      BY DEF MigrationInv, MigrationTypes
    <3>4. runner[m].dir = "up" =>
            /\ runner[m].rev <= r + 1
            /\ runner[m].rev <= r => Opening(runner[m].rev) \in schema
      BY <1>1, <1>2, <1>9, <3>1, <3>3 DEF UpFits
    <3>5. QED  BY <3>1, <3>2, <3>4 DEF UpFits, DownFits
  <2>2. QED  BY <1>2, <1>5, <1>6, <2>1 DEF RunnersFit
<1>11. OneUp' /\ DownAlone'
  BY <1>4, <1>5, <1>6 DEF MigrationInv, OneUp, Ahead, DownAlone
<1>12. TornFit'
  <2>1. ASSUME NEW t \in torn PROVE TornFits(t, r, schema, runner')
    <3>1. TornFits(t, version, schema, runner) /\ t.rev \in 1..13
      BY <1>1 DEF MigrationInv, TornFit
    <3>2. CASE t.dir = "up"
      <4>1. t.rev # r /\ version < t.rev
        BY <1>3, <3>1, <3>2 DEF TornFits
      <4>2. r < t.rev
        BY <1>1, <1>2, <3>1, <4>1
      <4>3. QED  BY <1>5, <1>6, <3>1, <3>2, <4>2 DEF TornFits
    <3>3. CASE t.dir # "up"
      BY <1>1, <1>2, <3>1, <3>3 DEF TornFits
    <3>4. QED  BY <3>2, <3>3
  <2>2. QED  BY <1>2, <2>1 DEF TornFit
<1>13. TablesMatchVersion'
  <2>1. TablesOf(r) \subseteq schema
    <3>1. SUFFICES ASSUME NEW s \in TablesOf(r) PROVE s \in schema
      OBVIOUS
    <3>2. PICK i \in 1..LastAt(r) : s = Upgrade[r][i]
      BY <1>1, TableOf
    <3>3. s.kind = "table"
      BY <1>1, TableOf
    <3>4. i \in 1..(runner[n].at - 1)
      <4>1. LastAt(r) \in Nat /\ runner[n].at \in Nat
        BY <1>1, AtFirst DEF MigrationInv, MigrationTypes, Runner
      <4>2. QED  BY <1>3, <4>1
    <3>5. QED  BY <1>8, <3>2, <3>3, <3>4 DEF UpFits
  <2>2. ASSUME NEW q \in 1..r PROVE TablesOf(q) \subseteq schema
    <3>1. q = r \/ q \in 1..version
      BY <1>1, <1>2
    <3>2. QED  BY <2>1, <3>1 DEF MigrationInv, TablesMatchVersion
  <2>3. ASSUME NEW q \in (r + 2)..Latest PROVE TablesOf(q) \cap schema = {}
    <3>1. q \in (version + 2)..Latest
      BY <1>1, <1>2, Thirteen
    <3>2. QED  BY <3>1 DEF MigrationInv, TablesMatchVersion
  <2>4. QED  BY <1>2, <2>2, <2>3 DEF TablesMatchVersion
<1>14. QED  BY <1>7, <1>10, <1>11, <1>12, <1>13 DEF MigrationInv

LEMMA StampDownStep ==
  ASSUME MigrationInv, NEW n \in Runners, Stamp(n), runner[n].dir = "down"
  PROVE  MigrationInv' /\ version \in {12, 13}
<1> DEFINE r == runner[n].rev
<1>1. /\ version \in 0..13 /\ runner \in [Runners -> Runner]
      /\ torn \subseteq [dir : {"up", "down"}, rev : 1..13] /\ r \in 1..13
  BY DEF MigrationInv, MigrationTypes
<1>2. /\ version = r /\ version' = r - 1 /\ schema' = schema /\ torn' = torn
      /\ runner' = [runner EXCEPT ![n] = Stopped]
  BY DEF Stamp
<1>3. r \in {12, 13} /\ [dir |-> "down", rev |-> r] \notin torn
  <2>1. Past(runner[n])
    BY FinishedIsPast DEF Stamp
  <2>2. QED  BY <2>1 DEF MigrationInv, RunnersFit, DownFits
<1>4. Stopped \in Runner /\ Stopped.dir = "idle"
  BY Thirteen DEF Stopped, Runner
<1>5. runner' \in [Runners -> Runner] /\ \A m \in Runners : runner'[m].dir = "idle"
  BY <1>1, <1>2, <1>4 DEF MigrationInv, DownAlone
<1>6. MigrationTypes'
  <2>1. version' \in 0..13
    BY <1>1, <1>2
  <2>2. QED  BY <1>1, <1>2, <1>5, <2>1 DEF MigrationTypes
<1>7. RunnersFit' /\ OneUp' /\ DownAlone'
  BY <1>5 DEF RunnersFit, UpFits, DownFits, OneUp, Ahead, DownAlone
<1>8. TornFit'
  <2>1. ASSUME NEW t \in torn PROVE TornFits(t, r - 1, schema, runner')
    <3>1. TornFits(t, version, schema, runner) /\ t.rev \in 1..13
      BY <1>1 DEF MigrationInv, TornFit
    <3>2. CASE t.dir = "up"
      <4>1. r - 1 < t.rev
        BY <1>1, <1>2, <3>1, <3>2 DEF TornFits
      <4>2. QED  BY <1>5, <3>1, <3>2, <4>1 DEF TornFits
    <3>3. CASE t.dir = "down"
      <4>1. t = [dir |-> "down", rev |-> t.rev]
        BY <1>1, <3>3
      <4>2. t.rev # r
        BY <1>3, <4>1
      <4>3. r - 1 >= t.rev
        BY <1>1, <1>2, <3>1, <3>3, <4>2 DEF TornFits
      <4>4. QED  BY <3>1, <3>3, <4>3 DEF TornFits
    <3>4. t.dir \in {"up", "down"}
      BY <1>1
    <3>5. QED  BY <3>2, <3>3, <3>4
  <2>2. QED  BY <1>2, <2>1 DEF TornFit
<1>9. TablesMatchVersion'
  <2>1. ASSUME NEW q \in 1..(r - 1) PROVE TablesOf(q) \subseteq schema
    <3>1. q \in 1..version
      BY <1>1, <1>2
    <3>2. QED  BY <3>1 DEF MigrationInv, TablesMatchVersion
  <2>2. ASSUME NEW q \in ((r - 1) + 2)..Latest PROVE TablesOf(q) \cap schema = {}
    <3>1. q \in (version + 2)..Latest \/ q = 13
      BY <1>1, <1>2, <1>3, Thirteen
    <3>2. CASE q = 13
      <4>1. TablesOf(13) = {}
        BY TableOf, LastTwoRevisions
      <4>2. QED  BY <3>2, <4>1
    <3>3. QED  BY <3>1, <3>2 DEF MigrationInv, TablesMatchVersion
  <2>3. QED  BY <1>2, <2>1, <2>2 DEF TablesMatchVersion
<1>10. QED  BY <1>2, <1>3, <1>6, <1>7, <1>8, <1>9 DEF MigrationInv

LEMMA UpExecuteStep ==
  ASSUME MigrationInv, NEW n \in Runners, Execute(n), runner[n].dir = "up"
  PROVE  MigrationInv'
<1> DEFINE x == runner[n]
           y == [x EXCEPT !.at = x.at + 1]
           s == Upgrade[x.rev][x.at]
           db == schema \cup {s}
<1>1. /\ version \in 0..13 /\ runner \in [Runners -> Runner] /\ x \in Runner
      /\ torn \subseteq [dir : {"up", "down"}, rev : 1..13] /\ x.rev \in 1..13
  BY DEF MigrationInv, MigrationTypes
<1>2. /\ x.at <= LastAt(x.rev) /\ CanCreate(s) /\ schema' = db
      /\ runner' = [runner EXCEPT ![n] = y] /\ version' = version /\ torn' = torn
  <2>1. Len(Plan(n)) = LastAt(x.rev) /\ Plan(n) = Upgrade[x.rev]
    BY PlanLength DEF Execute, MigrationInv, Plan
  <2>2. QED  BY <2>1 DEF Execute
<1>3. /\ x.at \in 1..LastAt(x.rev)
      /\ x.at + 1 > FirstAt(x.rev) /\ ~Past(x) =>
           /\ s = Opening(x.rev) /\ Opening(x.rev) \notin schema /\ x.rev = version + 1
  BY <1>2, UpStatement
<1>4. y \in Runner /\ y.dir = "up" /\ y.rev = x.rev /\ y.at = x.at + 1 /\ x.at \in Nat
  BY <1>1 DEF Runner
<1>5. LastAt(x.rev) \in Nat /\ FirstAt(x.rev) \in {1, 2}
  BY <1>1, AtFirst
<1>6. UpFits(x, version, schema)
  BY DEF MigrationInv, RunnersFit
<1>7. s.kind = "index" \/ Part(s) \in Parts[x.rev]
  BY <1>1, <1>3, LineOf
<1> HIDE DEF y, s
<1>8. /\ runner' \in [Runners -> Runner] /\ runner'[n] = y
      /\ \A m \in Runners : m # n => runner'[m] = runner[m]
  BY <1>1, <1>2, <1>4
<1>9. MigrationTypes'
  <2>1. y.at \in 1..(LastAt(y.rev) + 1)
    BY <1>3, <1>4, <1>5
  <2>2. QED  BY <1>1, <1>2, <1>4, <1>8, <2>1 DEF MigrationInv, MigrationTypes
\* Getting past the first lasting statement, it is the first of its revision.
<1>10. ASSUME Past(y), ~Past(x)
       PROVE  s = Opening(x.rev) /\ Opening(x.rev) \notin schema /\ x.rev = version + 1
  BY <1>3, <1>4, <1>10 DEF Past
<1>11. \A m \in Runners : runner[m].dir # "down"
  BY DEF MigrationInv, DownAlone
<1>12. RunnersFit'
  <2>1. UpFits(y, version, db)
    <3>1. x.rev <= version + 1 /\ (Past(y) => x.rev = version + 1)
      BY <1>6, <1>10, <1>4 DEF UpFits
    <3>2. Past(y) \/ x.rev <= version => Opening(x.rev) \in db
      BY <1>4, <1>6, <1>10 DEF UpFits
    <3>3. ASSUME NEW i \in 1..(y.at - 1), Upgrade[x.rev][i].kind = "table"
          PROVE  Upgrade[x.rev][i] \in db
      <4>1. i = x.at \/ i \in 1..(x.at - 1)
        BY <1>4
      <4>2. QED  BY <1>4, <1>6, <3>3, <4>1 DEF UpFits, s
    <3>4. QED  BY <1>4, <3>1, <3>2, <3>3 DEF UpFits
  <2>2. DownFits(y, version, db, torn)
    BY <1>4 DEF DownFits
  <2>3. ASSUME NEW m \in Runners
        PROVE  UpFits(runner[m], version, db) /\ DownFits(runner[m], version, db, torn)
    <3>1. UpFits(runner[m], version, schema)
      BY DEF MigrationInv, RunnersFit
    <3>2. UpFits(runner[m], version, db)
      BY <3>1 DEF UpFits
    <3>3. QED  BY <1>11, <3>2 DEF DownFits
  <2>4. QED  BY <1>2, <1>8, <2>1, <2>2, <2>3 DEF RunnersFit
<1>13. OneUp'
  <2>1. ASSUME NEW m \in Runners, m # n, Ahead(runner[m]), Ahead(y)
        PROVE  FALSE
    <3>1. ~Past(x)
      BY <2>1 DEF MigrationInv, OneUp, Ahead
    <3>2. Opening(x.rev) \notin schema /\ x.rev = version + 1
      BY <1>10, <2>1, <3>1 DEF Ahead
    <3>3. runner[m].rev = version + 1 /\ Opening(runner[m].rev) \in schema
      BY <2>1 DEF MigrationInv, RunnersFit, UpFits, Ahead
    <3>4. QED  BY <3>2, <3>3
  <2>2. QED  BY <1>8, <2>1 DEF MigrationInv, OneUp
<1>14. DownAlone'
  BY <1>4, <1>8, <1>11 DEF MigrationInv, DownAlone
<1>15. TornFit'
  <2>1. ASSUME NEW t \in torn PROVE TornFits(t, version, db, runner')
    <3>1. TornFits(t, version, schema, runner)
      BY DEF MigrationInv, TornFit
    <3>2. CASE t.dir = "up"
      <4>1. t.rev = x.rev => ~Past(y)
        <5>1. SUFFICES ASSUME t.rev = x.rev, Past(y) PROVE FALSE
          OBVIOUS
        <5>2. ~Past(x) /\ Opening(x.rev) \in schema
          BY <3>1, <3>2, <5>1 DEF TornFits
        <5>3. QED  BY <1>10, <5>1, <5>2
      <4>2. QED  BY <1>4, <1>8, <3>1, <3>2, <4>1 DEF TornFits
    <3>3. CASE t.dir = "down"
      <4>1. t.rev \in {12, 13} /\ version >= t.rev /\ Closing(t.rev) \notin schema
        BY <3>1, <3>3 DEF TornFits
      <4>2. s # Closing(t.rev)
        <5>1. SUFFICES ASSUME s = Closing(t.rev) PROVE FALSE
          OBVIOUS
        <5>2. /\ FirstAt(t.rev) = 1 /\ s.kind # "index" /\ Part(s) \in Parts[t.rev]
              /\ s # Opening(t.rev)
          BY <4>1, <5>1, LastTwoRevisions
        <5>3. t.rev = x.rev
          BY <1>1, <1>7, <4>1, <5>2, PartsApart
        <5>4. x.rev # version + 1
          BY <1>1, <4>1, <5>3
        <5>5. ~Past(x) /\ x.at + 1 > FirstAt(x.rev)
          BY <1>3, <1>4, <1>6, <5>2, <5>3, <5>4 DEF UpFits
        <5>6. QED  BY <1>3, <5>4, <5>5
      <4>3. QED  BY <3>3, <4>1, <4>2 DEF TornFits
    <3>4. t.dir \in {"up", "down"}
      BY <1>1
    <3>5. QED  BY <3>2, <3>3, <3>4
  <2>2. QED  BY <1>2, <2>1 DEF TornFit
<1>16. TablesMatchVersion'
  <2>1. ASSUME NEW q \in (version + 2)..Latest PROVE TablesOf(q) \cap db = {}
    <3>1. TablesOf(q) \cap schema = {} /\ q \in 1..13
      BY <1>1, Thirteen DEF MigrationInv, TablesMatchVersion
    <3>2. s \notin TablesOf(q)
      <4>1. SUFFICES ASSUME s \in TablesOf(q) PROVE FALSE
        OBVIOUS
      <4>2. s.kind = "table" /\ Part(s) \in Parts[q]
        BY <3>1, <4>1, TableOf
      <4>3. q = x.rev
        BY <1>1, <1>7, <3>1, <4>2, PartsApart
      <4>4. x.rev <= version + 1
        BY <1>4, <1>6 DEF UpFits, y
      <4>5. QED  BY <1>1, <4>3, <4>4
    <3>3. QED  BY <3>1, <3>2
  <2>2. \A q \in 1..version : TablesOf(q) \subseteq db
    BY DEF MigrationInv, TablesMatchVersion
  <2>3. QED  BY <1>2, <2>1, <2>2 DEF TablesMatchVersion
<1>17. QED  BY <1>9, <1>12, <1>13, <1>14, <1>15, <1>16 DEF MigrationInv

LEMMA DownExecuteStep ==
  ASSUME MigrationInv, NEW n \in Runners, Execute(n), runner[n].dir = "down"
  PROVE  MigrationInv'
<1> DEFINE x == runner[n]
           y == [x EXCEPT !.at = x.at + 1]
           s == Downgrade(x.rev)[x.at]
           db == schema \ {s}
<1>1. /\ version \in 0..13 /\ runner \in [Runners -> Runner] /\ x \in Runner
      /\ torn \subseteq [dir : {"up", "down"}, rev : 1..13] /\ x.rev \in 1..13
      /\ x.at \in 1..(LastAt(x.rev) + 1)
  BY DEF MigrationInv, MigrationTypes
<1>2. /\ x.at <= LastAt(x.rev) /\ CanDrop(s)
      /\ schema' = IF s.kind = "table" THEN {o \in schema : o.on # s.on} ELSE db
      /\ runner' = [runner EXCEPT ![n] = y] /\ version' = version /\ torn' = torn
  <2>1. Len(Plan(n)) = LastAt(x.rev) /\ Plan(n) = Downgrade(x.rev)
    BY PlanLength DEF Execute, MigrationInv, Plan
  <2>2. QED  BY <2>1 DEF Execute
<1>3. /\ s.kind # "table" /\ x.rev = version
      /\ \/ x.rev = 10 /\ x.at = 1 /\ s.kind = "enum"
         \/ /\ x.rev \in {12, 13}
            /\ s.kind = "index" \/ Part(s) \in Parts[x.rev]
            /\ x.at = 1 => s = Closing(x.rev) /\ s \in schema
  BY <1>2, DownStatement
<1>4. y \in Runner /\ y.dir = "down" /\ y.rev = x.rev /\ y.at = x.at + 1 /\ x.at \in Nat
  BY <1>1 DEF Runner
<1>5. LastAt(x.rev) \in Nat /\ FirstAt(x.rev) \in {1, 2} /\ (x.rev # 10 => FirstAt(x.rev) = 1)
      /\ FirstAt(10) = 2
  BY <1>1, AtFirst
<1>6. DownFits(x, version, schema, torn)
  BY DEF MigrationInv, RunnersFit
<1> HIDE DEF y, s
<1>7. schema' = db
  BY <1>2, <1>3
<1>8. /\ runner' \in [Runners -> Runner] /\ runner'[n] = y
      /\ \A m \in Runners : m # n => runner'[m] = runner[m] /\ runner[m].dir = "idle"
  BY <1>1, <1>2, <1>4 DEF MigrationInv, DownAlone
<1>9. MigrationTypes'
  <2>1. y.at \in 1..(LastAt(y.rev) + 1)
    BY <1>2, <1>4, <1>5
  <2>2. QED  BY <1>1, <1>2, <1>4, <1>8, <2>1 DEF MigrationInv, MigrationTypes
<1>10. RunnersFit'
  <2>1. DownFits(y, version, db, torn)
    <3>1. ASSUME Past(y)
          PROVE  /\ x.rev \in {12, 13} /\ Closing(x.rev) \notin db
                 /\ [dir |-> "down", rev |-> x.rev] \notin torn
      <4>1. x.rev \in {12, 13}
        BY <1>3, <1>4, <1>5, <3>1 DEF Past
      <4>2. CASE x.at = 1
        <5>1. s = Closing(x.rev) /\ s \in schema
          BY <1>3, <4>1, <4>2
        <5>2. [dir |-> "down", rev |-> x.rev] \notin torn
          <6>1. SUFFICES ASSUME [dir |-> "down", rev |-> x.rev] \in torn PROVE FALSE
            OBVIOUS
          <6> DEFINE t == [dir |-> "down", rev |-> x.rev]
          <6>2. t.dir = "down" /\ t.rev = x.rev
            OBVIOUS
          <6>3. TornFits(t, version, schema, runner)
            BY <6>1 DEF MigrationInv, TornFit
          <6> HIDE DEF t
          <6>4. QED  BY <5>1, <6>2, <6>3 DEF TornFits
        <5>3. QED  BY <4>1, <5>1, <5>2
      <4>3. CASE x.at # 1
        <5>1. Past(x)
          BY <1>1, <1>4, <1>5, <4>1, <4>3 DEF Past
        <5>2. QED  BY <1>6, <4>1, <5>1 DEF DownFits
      <4>4. QED  BY <4>2, <4>3
    <3>2. QED  BY <1>3, <1>4, <3>1 DEF DownFits
  <2>2. UpFits(y, version, db)
    BY <1>4 DEF UpFits
  <2>3. \A m \in Runners : m # n =>
          UpFits(runner[m], version, db) /\ DownFits(runner[m], version, db, torn)
    BY <1>8 DEF UpFits, DownFits
  <2>4. QED  BY <1>2, <1>7, <1>8, <2>1, <2>2, <2>3 DEF RunnersFit
<1>11. OneUp' /\ DownAlone'
  BY <1>4, <1>8 DEF OneUp, Ahead, DownAlone
<1>12. TornFit'
  <2>1. ASSUME NEW t \in torn PROVE TornFits(t, version, db, runner')
    <3>1. TornFits(t, version, schema, runner) /\ t.rev \in 1..13
      BY <1>1 DEF MigrationInv, TornFit
    <3>2. CASE t.dir = "up"
      <4>1. version < t.rev /\ Opening(t.rev) \in schema
        BY <3>1, <3>2 DEF TornFits
      <4>2. Opening(t.rev).kind \in {"table", "column"} /\ Part(Opening(t.rev)) \in Parts[t.rev]
        BY <3>1, FirstStatement
      <4>3. s # Opening(t.rev)
        <5>1. SUFFICES ASSUME s = Opening(t.rev) PROVE FALSE
          OBVIOUS
        <5>2. Part(s) \in Parts[x.rev]
          BY <1>3, <4>2, <5>1
        <5>3. t.rev = x.rev
          BY <1>1, <3>1, <4>2, <5>1, <5>2, PartsApart
        <5>4. QED  BY <1>1, <1>3, <3>1, <4>1, <5>3
      <4>4. \A m \in Runners : runner'[m].dir # "up"
        BY <1>4, <1>8
      <4>5. QED  BY <3>2, <4>1, <4>3, <4>4 DEF TornFits
    <3>3. CASE t.dir = "down"
      BY <3>1, <3>3 DEF TornFits
    <3>4. t.dir \in {"up", "down"}
      BY <1>1
    <3>5. QED  BY <3>2, <3>3, <3>4
  <2>2. QED  BY <1>2, <1>7, <2>1 DEF TornFit
<1>13. TablesMatchVersion'
  <2>1. ASSUME NEW q \in 1..version PROVE TablesOf(q) \subseteq db
    <3>1. TablesOf(q) \subseteq schema /\ q \in 1..13
      BY <1>1 DEF MigrationInv, TablesMatchVersion
    <3>2. \A o \in TablesOf(q) : o.kind = "table"
      BY <3>1, TableOf
    <3>3. QED  BY <1>3, <3>1, <3>2
  <2>2. \A q \in (version + 2)..Latest : TablesOf(q) \cap db = {}
    BY DEF MigrationInv, TablesMatchVersion
  <2>3. QED  BY <1>2, <1>7, <2>1, <2>2 DEF TablesMatchVersion
<1>14. QED  BY <1>9, <1>10, <1>11, <1>12, <1>13 DEF MigrationInv

LEMMA MigrationStep ==
  ASSUME MigrationInv, Next
  PROVE  MigrationInv' /\ (version' < version => version > Latest - 2)
<1>1. PICK n \in Runners : Begin(n) \/ Execute(n) \/ Stop(n) \/ Stamp(n)
  BY DEF Next
<1>2. version \in 0..13 /\ Latest = 13 /\ runner[n].dir \in {"idle", "up", "down"}
  BY Thirteen DEF MigrationInv, MigrationTypes, Runner
<1>3. CASE Begin(n)
  <2>1. version' = version
    BY <1>3 DEF Begin
  <2>2. QED  BY <1>2, <1>3, <2>1, BeginStep
<1>4. CASE Execute(n)
  <2>1. version' = version /\ runner[n].dir # "idle"
    BY <1>4 DEF Execute
  <2>2. QED  BY <1>2, <1>4, <2>1, UpExecuteStep, DownExecuteStep
<1>5. CASE Stop(n)
  <2>1. version' = version
    BY <1>5 DEF Stop
  <2>2. QED  BY <1>2, <1>5, <2>1, StopStep
<1>6. CASE Stamp(n)
  <2>1. CASE runner[n].dir = "up"
    <3>1. version' = version + 1
      BY <1>2, <1>6, <2>1 DEF Stamp, MigrationInv, MigrationTypes
    <3>2. QED  BY <1>2, <1>6, <2>1, <3>1, StampUpStep
  <2>2. CASE runner[n].dir = "down"
    <3>1. MigrationInv' /\ version \in {12, 13}
      BY <1>6, <2>2, StampDownStep
    <3>2. version > Latest - 2
      BY <1>2, <3>1
    <3>3. QED  BY <3>1, <3>2
  <2>3. QED  BY <1>2, <1>6, <2>1, <2>2 DEF Stamp
<1>7. QED  BY <1>1, <1>3, <1>4, <1>5, <1>6

LEMMA MigrationStart == Init => MigrationInv
<1> SUFFICES ASSUME Init PROVE MigrationInv
  OBVIOUS
<1>1. schema = {} /\ version = 0 /\ torn = {} /\ runner = [n \in Runners |-> Stopped]
  BY DEF Init
<1>2. Stopped \in Runner /\ Stopped.dir = "idle"
  BY Thirteen DEF Stopped, Runner
<1>3. \A n \in Runners : runner[n].dir = "idle"
  BY <1>1, <1>2
<1>4. MigrationTypes
  BY <1>1, <1>2, <1>3 DEF MigrationTypes
<1>5. RunnersFit /\ OneUp /\ DownAlone
  BY <1>3 DEF RunnersFit, UpFits, DownFits, OneUp, Ahead, DownAlone
<1>6. TornFit
  BY <1>1 DEF TornFit
<1>7. TablesMatchVersion
  BY <1>1 DEF TablesMatchVersion
<1>8. QED  BY <1>4, <1>5, <1>6, <1>7 DEF MigrationInv

LEMMA MigrationStutter ==
  ASSUME MigrationInv, UNCHANGED vars
  PROVE  MigrationInv'
<1>1. schema' = schema /\ version' = version /\ runner' = runner /\ torn' = torn
  BY DEF vars
<1>2. MigrationTypes' /\ RunnersFit' /\ OneUp' /\ DownAlone' /\ TornFit'
  BY <1>1 DEF MigrationInv, MigrationTypes, RunnersFit, OneUp, DownAlone, TornFit, TornFits
<1>3. TablesMatchVersion'
  BY <1>1 DEF MigrationInv, TablesMatchVersion
<1>4. QED  BY <1>2, <1>3 DEF MigrationInv

LEMMA MigrationInvariant == Spec => []MigrationInv
<1>1. Init => MigrationInv
  BY MigrationStart
<1>2. MigrationInv /\ [Next]_vars => MigrationInv'
  BY MigrationStep, MigrationStutter
<1>3. QED  BY <1>1, <1>2, PTL DEF Spec

\* However many `alembic` commands run, fail and are killed, the recorded version tells
\* the truth about the tables: those of the revisions it counts exist, and no others
\* but those of the next one.
THEOREM VersionTellsTables == Spec => []TablesMatchVersion
<1>1. MigrationInv => TablesMatchVersion
  BY DEF MigrationInv
<1>2. QED  BY <1>1, MigrationInvariant, PTL

\* A revision that a command left half applied is never recorded as applied by any
\* later command, and one left half undone never as undone.
THEOREM TornNeedsRepair == Spec => []TornStaysTorn
<1>1. MigrationInv => TornStaysTorn
  <2>1. SUFFICES ASSUME MigrationInv, NEW t \in torn
                 PROVE  IF t.dir = "up" THEN version < t.rev ELSE version >= t.rev
    BY DEF TornStaysTorn
  <2>2. TornFits(t, version, schema, runner)
    BY <2>1 DEF MigrationInv, TornFit
  <2>3. torn \subseteq [dir : {"up", "down"}, rev : 1..13]
    BY <2>1 DEF MigrationInv, MigrationTypes
  <2>4. t.dir \in {"up", "down"}
    BY <2>1, <2>3
  <2>5. QED  BY <2>2, <2>4 DEF TornFits
<1>2. QED  BY <1>1, MigrationInvariant, PTL

\* No command ever records the undoing of a revision older than the last two: the first
\* statement of its downgrade() drops an index that a foreign key needs.
THEOREM OldRevisionsStay == Spec => OnlyLastTwoUndone
<1>1. MigrationInv /\ [Next]_vars =>
        [version' < version => version > Latest - 2]_vars
  BY MigrationStep
<1>2. QED  BY <1>1, MigrationInvariant, PTL DEF Spec, OnlyLastTwoUndone
================================================================================
