------------------------------- MODULE Prompts -------------------------------
(***************************************************************************)
(* The AI prompts of an account: their versions, which of them is active,  *)
(* and the one a generated reply is written with.                          *)
(*                                                                         *)
(* A request reads everything from the snapshot its authorization query    *)
(* opened and commits once.  The four prompt types never meet: the prompts *)
(* here are those of one.  A prompt's scope is an agent or none, and a     *)
(* connection or none.                                                     *)
(***************************************************************************)
EXTENDS FiniteSets, Naturals

CONSTANTS
  Ids,                    \* ids of ai_prompts rows
  Agents, Conns,          \* agents and platform connections
  Requests,               \* requests served at one time
  None,                   \* NULL
  MaxServed               \* bound: requests

ASSUME PromptsAssumption == MaxServed \in Nat /\ None \notin Ids \cup Agents \cup Conns

VARIABLES
  agents, conns,          \* those that exist
  link,                   \* platform_connection_id of each agent
  prompt,                 \* the ai_prompts rows
  request,                \* what each request is to do and its snapshot
  served,                 \* requests begun
  moved,                  \* history: prompts whose connection was deleted
  crossed                 \* history: prompts activated by a request that overlapped another

promptVars == <<agents, conns, link, prompt, request, served, moved, crossed>>

Scopes == (Agents \cup {None}) \X (Conns \cup {None})
Default == <<None, None>>
Row == [scope : Scopes, version : Nat, active : BOOLEAN]
NoPrompt == [scope |-> Default, version |-> 0, active |-> FALSE]
NoRequest == [op |-> "none", id |-> None, scope |-> Default, on |-> FALSE,
              seen |-> [i \in Ids |-> NoPrompt], alone |-> TRUE]

Stored(rows) == {i \in Ids : rows[i].version > 0}
Active(rows) == {i \in Stored(rows) : rows[i].active}
InScope(rows, s) == {i \in Stored(rows) : rows[i].scope = s}

PromptInit ==
  /\ agents = {} /\ conns = {}
  /\ link = [a \in Agents |-> None]
  /\ prompt = [i \in Ids |-> NoPrompt]
  /\ request = [r \in Requests |-> NoRequest]
  /\ served = 0
  /\ moved = {} /\ crossed = {}

(***************************************************************************)
(* Resolution, in the snapshot of the session that generates.              *)
(***************************************************************************)
\* The first of these levels with an active prompt decides.  The agent's level
\* takes the agent's prompts for every connection.
AgentLevel(a) == {i \in Active(prompt) : a # None /\ prompt[i].scope[1] = a}
ConnectionLevel(c) == {i \in Active(prompt) : c # None /\ prompt[i].scope = <<None, c>>}
AccountLevel == Active(prompt) \cap InScope(prompt, Default)

\* The highest version; prompts of equal version are told apart by updated_at.
Newest(ids) == {i \in ids : \A j \in ids : prompt[j].version <= prompt[i].version}

\* resolve_prompts: an agent without a connection brings its own.
Resolved(a, c) ==
  LET page == IF a # None /\ c = None THEN link[a] ELSE c
  IN  CASE AgentLevel(a) # {}         -> Newest(AgentLevel(a))
        [] AgentLevel(a) = {} /\ ConnectionLevel(page) # {} -> Newest(ConnectionLevel(page))
        [] OTHER                      -> Newest(AccountLevel)

(***************************************************************************)
(* Agents and connections.                                                 *)
(***************************************************************************)
CreateAgent(a) ==
  /\ a \notin agents /\ \A r \in Requests : request[r].scope[1] # a
  /\ \E c \in conns \cup {None} : link' = [link EXCEPT ![a] = c]
  /\ agents' = agents \cup {a}
  /\ UNCHANGED <<conns, prompt, request, served, moved, crossed>>

\* update_agent, of which only the connection matters here.
UpdateAgent(a) ==
  /\ a \in agents
  /\ \E c \in conns \cup {None} : link' = [link EXCEPT ![a] = c]
  /\ UNCHANGED <<agents, conns, prompt, request, served, moved, crossed>>

Connect(c) ==
  /\ c \notin conns /\ \A r \in Requests : request[r].scope[2] # c
  /\ conns' = conns \cup {c}
  /\ UNCHANGED <<agents, link, prompt, request, served, moved, crossed>>

(***************************************************************************)
(* The start of a request.                                                 *)
(***************************************************************************)
Begin(r, op, id, scope, on) ==
  /\ request[r].op = "none" /\ served < MaxServed
  /\ request' = [request EXCEPT ![r] =
       [op |-> op, id |-> id, scope |-> scope, on |-> on, seen |-> prompt, alone |-> TRUE]]
  /\ served' = served + 1
  /\ UNCHANGED <<agents, conns, link, prompt, moved, crossed>>

\* create_prompt, in a scope whose agent and connection are the account's.
BeginCreate(r) ==
  \E a \in agents \cup {None}, c \in conns \cup {None}, on \in BOOLEAN :
    Begin(r, "create", None, <<a, c>>, on)

\* update_prompt, activating or deactivating; and delete_prompt.
BeginUpdate(r) ==
  \E i \in Stored(prompt), on \in BOOLEAN : Begin(r, "update", i, prompt[i].scope, on)
BeginDelete(r) ==
  \E i \in Stored(prompt) : Begin(r, "delete", i, prompt[i].scope, FALSE)

\* delete_agent and delete_connection.
BeginDeleteAgent(r) == \E a \in agents : Begin(r, "agent", None, <<a, None>>, FALSE)
BeginDeleteConnection(r) == \E c \in conns : Begin(r, "connection", None, <<None, c>>, FALSE)

(***************************************************************************)
(* Its commit.                                                             *)
(***************************************************************************)
\* The request is over, and those of a scope whose prompts it changed are no longer alone.
ChangedScopes ==
  LET changed == {i \in Ids : prompt'[i] # prompt[i]}
  IN  {prompt[i].scope : i \in changed \cap Stored(prompt)} \cup
      {prompt'[i].scope : i \in changed \cap Stored(prompt')}

Finished(r) ==
  [q \in Requests |->
    IF q = r \/ request[q].op = "none" THEN NoRequest
    ELSE [request[q] EXCEPT !.alone = @ /\ request[q].scope \notin ChangedScopes]]

\* Only older versions (mutant of Siblings).
SiblingsOlder(seen, scope, id) ==
  {j \in Active(seen) \cap InScope(seen, scope) : j # id /\ seen[j].version < seen[id].version}

\* _deactivate_siblings: the active prompts of the scope, but for the one activated.
Siblings(seen, scope, id) == (Active(seen) \cap InScope(seen, scope)) \ {id}

\* The other rows it writes must still be there.
Deactivated(r, id) ==
  LET ids == IF request[r].on THEN Siblings(request[r].seen, request[r].scope, id) ELSE {}
  IN  [j \in Ids |-> [prompt[j] EXCEPT !.active = @ /\ j \notin ids]]

Writable(r, id) ==
  request[r].on => Siblings(request[r].seen, request[r].scope, id) \subseteq Stored(prompt)

\* An activation of prompt `id` that overlapped another request of its scope.
Activation(r, id) ==
  IF ~request[r].on THEN UNCHANGED <<moved, crossed>>
  ELSE IF request[r].alone THEN moved' = moved \ {id} /\ crossed' = crossed \ {id}
  ELSE crossed' = crossed \cup ({id} \cap Stored(prompt')) /\ UNCHANGED moved

\* _next_prompt_version.
NextVersion(seen, scope) ==
  CHOOSE v \in 1..(MaxServed + 1) :
    /\ \A i \in InScope(seen, scope) : seen[i].version < v
    /\ v = 1 \/ \E i \in InScope(seen, scope) : seen[i].version = v - 1

\* An id never used: the automatic key does not come back.
Spare(i) ==
  /\ prompt[i] = NoPrompt
  /\ \A q \in Requests : request[q].id # i /\ request[q].seen[i] = NoPrompt
Fresh == CHOOSE i \in {j \in Ids : Spare(j)} : TRUE

\* A foreign key refuses a scope that has been deleted meanwhile.
CommitCreate(r) ==
  LET q == request[r]
  IN  /\ q.op = "create" /\ q.scope \in (agents \cup {None}) \X (conns \cup {None})
      /\ \E i \in Ids : Spare(i)
      /\ Writable(r, Fresh)
      /\ prompt' = [Deactivated(r, Fresh) EXCEPT ![Fresh] =
                      [scope |-> q.scope, version |-> NextVersion(q.seen, q.scope), active |-> q.on]]
      /\ Activation(r, Fresh)
      /\ request' = Finished(r)
      /\ UNCHANGED <<agents, conns, link, served>>

\* A column is written when its value differs from the one the session loaded: an
\* update that changes nothing does not notice that its row is gone.
AssignedActive(new, loaded, stored) == IF new = loaded THEN stored ELSE new

CommitUpdate(r) ==
  LET q == request[r]  i == request[r].id
  IN  /\ q.op = "update" /\ (i \in Stored(prompt) \/ q.on = q.seen[i].active)
      /\ Writable(r, i)
      /\ prompt' = [Deactivated(r, i) EXCEPT ![i].active = AssignedActive(q.on, q.seen[i].active, @)]
      /\ Activation(r, i)
      /\ request' = Finished(r)
      /\ UNCHANGED <<agents, conns, link, served>>

Removed(ids) == [i \in Ids |-> IF i \in ids THEN NoPrompt ELSE prompt[i]]
Forgotten(ids) == moved' = moved \ ids /\ crossed' = crossed \ ids

CommitDelete(r) ==
  LET q == request[r]
  IN  /\ q.op = "delete"
      /\ prompt' = Removed({q.id})
      /\ Forgotten({q.id})
      /\ request' = Finished(r)
      /\ UNCHANGED <<agents, conns, link, served>>

\* The relationship's cascade deletes the prompts the session has loaded; a foreign
\* key refuses the agent's deletion if there are others.
CommitDeleteAgent(r) ==
  LET q == request[r]  a == request[r].scope[1]
      mine == {i \in Stored(q.seen) : q.seen[i].scope[1] = a}
  IN  /\ q.op = "agent" /\ a \in agents
      /\ {i \in Stored(prompt) : prompt[i].scope[1] = a} \subseteq mine
      /\ agents' = agents \ {a}
      /\ link' = [link EXCEPT ![a] = None]
      /\ prompt' = Removed(mine)
      /\ Forgotten(mine)
      /\ request' = Finished(r)
      /\ UNCHANGED <<conns, served>>

\* delete_connection: its prompts have no cascade, so the session sets their
\* platform_connection_id to NULL, as it does that of its agents.
CommitDeleteConnection(r) ==
  LET q == request[r]  c == request[r].scope[2]
      mine == {i \in Stored(q.seen) : q.seen[i].scope[2] = c}
  IN  /\ q.op = "connection" /\ c \in conns
      /\ {i \in Stored(prompt) : prompt[i].scope[2] = c} = mine
      /\ conns' = conns \ {c}
      /\ link' = [a \in Agents |-> IF link[a] = c THEN None ELSE link[a]]
      /\ prompt' = [i \in Ids |-> IF i \in mine THEN [prompt[i] EXCEPT !.scope[2] = None]
                                  ELSE prompt[i]]
      /\ moved' = moved \cup mine
      /\ request' = Finished(r)
      /\ UNCHANGED <<agents, served, crossed>>

\* An error, a row that is gone, or a key that refuses the change: nothing is stored.
RequestFails(r) ==
  /\ request[r].op # "none"
  /\ request' = [request EXCEPT ![r] = NoRequest]
  /\ UNCHANGED <<agents, conns, link, prompt, served, moved, crossed>>

BeginRequest(r) ==
  BeginCreate(r) \/ BeginUpdate(r) \/ BeginDelete(r) \/ BeginDeleteAgent(r) \/ BeginDeleteConnection(r)

CommitRequest(r) ==
  \/ CommitCreate(r) \/ CommitUpdate(r) \/ CommitDelete(r)
  \/ CommitDeleteAgent(r) \/ CommitDeleteConnection(r)

PromptNext ==
  \/ \E a \in Agents : CreateAgent(a) \/ UpdateAgent(a)
  \/ \E c \in Conns : Connect(c)
  \/ \E r \in Requests : BeginRequest(r) \/ CommitRequest(r) \/ RequestFails(r)

PromptSpec == PromptInit /\ [][PromptNext]_promptVars

--------------------------------------------------------------------------------
(***************************************************************************)
(* Properties.                                                             *)
(***************************************************************************)
PromptTypeOK ==
  /\ agents \subseteq Agents /\ conns \subseteq Conns
  /\ link \in [Agents -> Conns \cup {None}]
  /\ prompt \in [Ids -> Row]
  /\ request \in [Requests ->
       [op : {"none", "create", "update", "delete", "agent", "connection"}, id : Ids \cup {None},
        scope : Scopes, on : BOOLEAN, seen : [Ids -> Row], alone : BOOLEAN]]
  /\ served \in Nat
  /\ moved \subseteq Ids /\ crossed \subseteq Ids

\* A scope has one active prompt: two only if one of them was activated by a request
\* that overlapped another of the scope, or came into it when its connection was
\* deleted.
OneActive ==
  \A i, j \in Active(prompt) \ (moved \cup crossed) :
    prompt[i].scope = prompt[j].scope => i = j

\* README.md:230: activating a prompt, new or old, makes it the one that replies in
\* its scope are written with, unless another request of the scope overlapped or the
\* agent has one of a higher or equal version for another connection; and no other
\* prompt of the scope is used for any agent and connection.
ActivatedIsUsed ==
  [][\A r \in Requests, s \in Scopes :
       request[r].on /\ request[r].alone /\ request[r].scope = s /\ CommitRequest(r) =>
         LET i == IF request[r].op = "create" THEN Fresh ELSE request[r].id
             used == Resolved(s[1], s[2])'
         IN  /\ used = {i} \/ \E j \in used \ {i} : prompt'[j].scope # s
             /\ \A a \in agents \cup {None}, c \in conns \cup {None} :
                  \A j \in Resolved(a, c)' : prompt'[j].scope = s => j = i]_promptVars
================================================================================
