-------------------------------- MODULE Webhooks --------------------------------
(***************************************************************************)
(* Inbound webhooks: the endpoint that stores an event under its key and   *)
(* queues it, the process_webhook_event task that stores the event's       *)
(* messages and comments, escalates or reopens their conversation and      *)
(* queues the jobs that answer them, and the agents of the inbox, who      *)
(* write the same conversations.                                           *)
(*                                                                         *)
(* The model has one customer.  Neither messages nor conversations are     *)
(* unique in the database, so a row is identified by its item and by the   *)
(* worker that inserted it, and a conversation by the worker that did.     *)
(***************************************************************************)
EXTENDS Naturals, FiniteSets

CONSTANTS
  Events,           \* event keys: source, connection, request headers, payload
  Messages,         \* external message ids
  Comments,         \* external comment ids
  Holds,            \* the items each event's payload carries
  Abusive,          \* the pairs of an event and an item whose text moderation flags
  Deliverers,       \* requests that deliver webhooks at one time
  Workers,          \* worker processes of the "webhooks" queue
  Agents,           \* inbox requests served at one time
  MessageWorkflows, \* automation workflows triggered by inbox messages,
  CommentWorkflows, \* and by comments
  DefaultReply,     \* stands for the AI_REPLY_GENERATION job of an item
  Requested,        \* bound: the statuses the inbox requests lead to
  Nobody,           \* no event, no item, no conversation
  Faults            \* what may go wrong: "broker", "error", "crash"

Items == Messages \cup Comments
ConversationStatuses == {"OPEN", "ASSIGNED", "PAUSED", "RESOLVED", "ESCALATED"}

ASSUME WebhookAssumption ==
  /\ Messages \cap Comments = {}
  /\ Holds \in [Events -> SUBSET Items]
  /\ Abusive \subseteq Events \X Items
  /\ \A e, f \in Events, i \in Messages :        \* a message's text does not change
       i \in Holds[e] \cap Holds[f] => (<<e, i>> \in Abusive <=> <<f, i>> \in Abusive)
  /\ Requested \subseteq ConversationStatuses
  /\ Faults \subseteq {"broker", "error", "crash"}
  /\ Nobody \notin Events \cup Items \cup Workers
  /\ DefaultReply \notin MessageWorkflows \cup CommentWorkflows
  /\ IsFiniteSet(Deliverers)

Rows == Items \X Workers
Threads == Workers
EventStatuses == {"PENDING", "PROCESSING", "PROCESSED", "FAILED", "IGNORED"}
\* The sync_jobs of an item, by dedupe_key.
Answers == MessageWorkflows \cup CommentWorkflows \cup {DefaultReply}

VARIABLES
  events,           \* webhook_events: status, attempts, whether a connection was found
  delivery,         \* what each request has done so far
  queue,            \* process_webhook_event messages waiting, by event
  worker,           \* the task each worker runs
  stored,           \* messages, facebook_comments: the event that wrote the row last
  thread,           \* the conversation of each message row
  conversation,     \* status of each conversation, "none" before it exists
  agent,            \* the conversation each agent has loaded, and its status then
  jobs,             \* sync_jobs created for a row
  settled,          \* history: rows whose jobs have all been created
  touched,          \* history: conversations an agent has written
  raced             \* history: messages stored while another worker, having found none,
                    \* was about to store them

vars == <<events, delivery, queue, worker, stored, thread, conversation, agent,
          jobs, settled, touched, raced>>

Event == [status : EventStatuses \cup {"none"}, attempts : Nat, account : BOOLEAN]
NoEvent == [status |-> "none", attempts |-> 0, account |-> FALSE]

Delivery == [pc : {"idle", "checked", "created"}, event : Events \cup {Nobody}]
NoDelivery == [pc |-> "idle", event |-> Nobody]

\* pc "next": between two items; "looked": the item's row and conversation are
\* loaded; "stored": they are committed; "queueing": `answers` are the jobs that its
\* loop has still to create.
Worker == [pc : {"idle", "next", "looked", "stored", "queueing"}, event : Events \cup {Nobody},
           todo : SUBSET Items, item : Items \cup {Nobody}, owner : Workers \cup {Nobody},
           thread : Threads \cup {Nobody}, seen : ConversationStatuses \cup {"none"},
           answers : SUBSET Answers]
Free == [pc |-> "idle", event |-> Nobody, todo |-> {}, item |-> Nobody,
         owner |-> Nobody, thread |-> Nobody, seen |-> "none", answers |-> {}]

Agent == [thread : Threads \cup {Nobody}, seen : ConversationStatuses \cup {"none"}]
Away == [thread |-> Nobody, seen |-> "none"]

Init ==
  /\ events = [e \in Events |-> NoEvent]
  /\ delivery = [d \in Deliverers |-> NoDelivery]
  /\ queue = [e \in Events |-> 0]
  /\ worker = [w \in Workers |-> Free]
  /\ stored = [r \in Rows |-> Nobody]
  /\ thread = [r \in Rows |-> Nobody]
  /\ conversation = [t \in Threads |-> "none"]
  /\ agent = [a \in Agents |-> Away]
  /\ jobs = [r \in Rows |-> {}]
  /\ settled = {}
  /\ touched = {}
  /\ raced = {}

(***************************************************************************)
(* The endpoint.  A delivery whose event is already stored does nothing,   *)
(* whatever has become of the event.                                       *)
(***************************************************************************)
CheckEvent(d, e) ==
  /\ delivery[d].pc = "idle"
  /\ events[e].status = "none"
  /\ delivery' = [delivery EXCEPT ![d] = [pc |-> "checked", event |-> e]]
  /\ UNCHANGED <<events, queue, worker, stored, thread, conversation, agent, jobs, settled, touched, raced>>

\* ingest_event that reports every event as created (mutant of Created).
CreatedAlways(e) == TRUE

\* ingest_event returns created = True only when its INSERT did not collide with
\* another one of the same key.
Created(e) == events[e].status = "none"

StoreEvent(d) ==
  LET e == delivery[d].event IN
  /\ delivery[d].pc = "checked"
  /\ IF events[e].status = "none"
     THEN \E found \in BOOLEAN :
            events' = [events EXCEPT ![e] = [NoEvent EXCEPT !.status = "PENDING", !.account = found]]
     ELSE UNCHANGED events
  /\ delivery' = [delivery EXCEPT ![d] = IF Created(e) THEN [@ EXCEPT !.pc = "created"]
                                         ELSE NoDelivery]
  /\ UNCHANGED <<queue, worker, stored, thread, conversation, agent, jobs, settled, touched, raced>>

SubmitEvent(d) ==
  /\ delivery[d].pc = "created"
  /\ queue' = [queue EXCEPT ![delivery[d].event] = @ + 1]
  /\ delivery' = [delivery EXCEPT ![d] = NoDelivery]
  /\ UNCHANGED <<events, worker, stored, thread, conversation, agent, jobs, settled, touched, raced>>

\* The broker refuses the task and the exception is swallowed, or the process dies.
DeliveryFails(d) ==
  /\ \/ delivery[d].pc = "created" /\ "broker" \in Faults
     \/ delivery[d].pc # "idle" /\ "crash" \in Faults
  /\ delivery' = [delivery EXCEPT ![d] = NoDelivery]
  /\ UNCHANGED <<events, queue, worker, stored, thread, conversation, agent, jobs, settled, touched, raced>>

(***************************************************************************)
(* process_webhook_event.                                                  *)
(***************************************************************************)
TakeEvent(w, e) ==
  /\ worker[w].pc = "idle"
  /\ queue[e] > 0
  /\ queue' = [queue EXCEPT ![e] = @ - 1]
  /\ IF events[e].status \in {"PROCESSED", "IGNORED"}
     THEN UNCHANGED <<events, worker>>
     ELSE /\ events' = [events EXCEPT ![e].status = "PROCESSING", ![e].attempts = @ + 1]
          /\ worker' = [worker EXCEPT ![w] = [Free EXCEPT !.pc = "next", !.event = e,
                                                          !.todo = Holds[e]]]
  /\ UNCHANGED <<delivery, stored, thread, conversation, agent, jobs, settled, touched, raced>>

Handled(e) == events[e].account /\ Holds[e] # {}

\* mark_ignored: no connection, or nothing in the payload the parsers support.
Ignore(w) ==
  LET e == worker[w].event IN
  /\ worker[w].pc = "next"
  /\ ~Handled(e)
  /\ events' = [events EXCEPT ![e].status = "IGNORED"]
  /\ worker' = [worker EXCEPT ![w] = Free]
  /\ UNCHANGED <<delivery, queue, stored, thread, conversation, agent, jobs, settled, touched, raced>>

RowsOf(i) == {r \in Rows : r[1] = i /\ stored[r] # Nobody}
Open == {t \in Threads : conversation[t] # "none"}

\* A message that is stored again when it comes again (mutant of Known).
KnownNever(i) == FALSE

\* A message that has a row is not handled again; a comment is updated.
Known(i) == i \in Messages /\ RowsOf(i) # {}

Skip(w) ==
  /\ worker[w].pc = "next"
  /\ Handled(worker[w].event)
  /\ \E i \in worker[w].todo :
        /\ Known(i)
        /\ worker' = [worker EXCEPT ![w].todo = @ \ {i}]
  /\ UNCHANGED <<events, delivery, queue, stored, thread, conversation, agent, jobs, settled, touched, raced>>

\* The item's row, if it has one, and for a message the customer's conversation, as
\* one snapshot shows them.  Messages are handled before comments.
LookUp(w) ==
  /\ worker[w].pc = "next"
  /\ Handled(worker[w].event)
  /\ \E i \in worker[w].todo :
        /\ ~Known(i)
        /\ i \in Comments => worker[w].todo \cap Messages = {}
        /\ \E owner \in IF i \in Comments /\ RowsOf(i) # {} THEN {r[2] : r \in RowsOf(i)} ELSE {w},
              t \in IF i \in Comments THEN {Nobody} ELSE IF Open # {} THEN Open ELSE {w} :
             worker' = [worker EXCEPT ![w] =
               [worker[w] EXCEPT !.pc = "looked", !.todo = @ \ {i}, !.item = i, !.owner = owner, !.thread = t,
                         !.seen = IF t = Nobody THEN "none" ELSE conversation[t]]]
  /\ UNCHANGED <<events, delivery, queue, stored, thread, conversation, agent, jobs, settled, touched, raced>>

\* The stored value after a session assigns `new` to an attribute it loaded as `old`.
Written(new, old, current) == IF new = old THEN current ELSE new

\* A message that reopens its conversation whatever its status (mutant of Received).
ReceivedReopening(seen, abusive) == IF abusive THEN "ESCALATED" ELSE "OPEN"

\* The status an inbound message gives a conversation loaded as `seen`.
Received(seen, abusive) ==
  IF abusive THEN "ESCALATED"
  ELSE IF seen \in {"none", "RESOLVED", "PAUSED"} THEN "OPEN"
  ELSE seen

\* The commit of the row and, for a message, of its conversation.
Store(w) ==
  LET q == worker[w]
      r == <<q.item, q.owner>>
  IN /\ q.pc = "looked"
     /\ stored' = [stored EXCEPT ![r] = q.event]
     /\ thread' = [thread EXCEPT ![r] = q.thread]
     /\ IF q.item \in Messages
        THEN conversation' = [conversation EXCEPT ![q.thread] =
               Written(Received(q.seen, <<q.event, q.item>> \in Abusive), q.seen, @)]
        ELSE UNCHANGED conversation
     /\ worker' = [worker EXCEPT ![w] = [@ EXCEPT !.pc = "stored", !.thread = Nobody, !.seen = "none"]]
     /\ raced' = raced \cup {i \in {q.item} : \E v \in Workers \ {w} :
                               worker[v].pc = "looked" /\ worker[v].item = i}
     /\ UNCHANGED <<events, delivery, queue, agent, jobs, settled, touched>>

\* What one snapshot of the workflows, which an edit may change at any time, calls for:
\* a job for every active one whose filters match, none if no active one matches, and
\* the default reply if none is active.  A flagged item gets no answer.
Called(e, i) ==
  IF <<e, i>> \in Abusive THEN {{}}
  ELSE {{DefaultReply}} \cup SUBSET (IF i \in Messages THEN MessageWorkflows ELSE CommentWorkflows)

ListAnswers(w) ==
  LET q == worker[w] IN
  /\ q.pc = "stored"
  /\ \E answers \in Called(q.event, q.item) :
        worker' = [worker EXCEPT ![w] = [q EXCEPT !.pc = "queueing", !.answers = answers]]
  /\ UNCHANGED <<events, delivery, queue, stored, thread, conversation, agent, jobs, settled,
                 touched, raced>>

\* create_job, a commit for each job; it returns the job a comment already has.
QueueJob(w) ==
  LET q == worker[w]
      r == <<q.item, q.owner>>
  IN /\ q.pc = "queueing"
     /\ \E k \in q.answers :
           /\ jobs' = [jobs EXCEPT ![r] = @ \cup {k}]
           /\ worker' = [worker EXCEPT ![w].answers = @ \ {k}]
     /\ UNCHANGED <<events, delivery, queue, stored, thread, conversation, agent, settled,
                    touched, raced>>

ItemDone(w) ==
  LET q == worker[w] IN
  /\ q.pc = "queueing"
  /\ q.answers = {}
  /\ settled' = settled \cup {<<q.item, q.owner>>}
  /\ worker' = [worker EXCEPT ![w] = [Free EXCEPT !.pc = "next", !.event = q.event, !.todo = q.todo]]
  /\ UNCHANGED <<events, delivery, queue, stored, thread, conversation, agent, jobs, touched, raced>>

\* mark_processed after the first item (mutant of AllHandled).
AnyHandled(q) == q.todo # Holds[q.event]

AllHandled(q) == q.todo = {}

Finish(w) ==
  LET q == worker[w] IN
  /\ q.pc = "next"
  /\ Handled(q.event)
  /\ AllHandled(q)
  /\ events' = [events EXCEPT ![q.event].status = "PROCESSED"]
  /\ worker' = [worker EXCEPT ![w] = Free]
  /\ UNCHANGED <<delivery, queue, stored, thread, conversation, agent, jobs, settled, touched, raced>>

\* An exception: mark_failed, unless the exception also broke the session, and no task
\* retries the event.  A message whose timestamp cannot be read fails after its new
\* conversation was flushed, and the commit of mark_failed keeps that conversation.
WorkerFails(w) ==
  LET q == worker[w] IN
  /\ q.pc # "idle"
  /\ "error" \in Faults
  /\ \/ UNCHANGED <<events, conversation>>
     \/ /\ events' = [events EXCEPT ![q.event].status = "FAILED"]
        /\ IF q.pc = "looked" /\ q.seen = "none" /\ q.thread # Nobody
           THEN \E fresh \in {"none", "OPEN"} :
                  conversation' = [conversation EXCEPT ![q.thread] = Written(fresh, "none", @)]
           ELSE UNCHANGED conversation
  /\ worker' = [worker EXCEPT ![w] = Free]
  /\ UNCHANGED <<delivery, queue, stored, thread, agent, jobs, settled, touched, raced>>

WorkerDies(w) ==
  /\ worker[w].pc # "idle"
  /\ "crash" \in Faults
  /\ worker' = [worker EXCEPT ![w] = Free]
  /\ UNCHANGED <<events, delivery, queue, stored, thread, conversation, agent, jobs, settled, touched, raced>>

(***************************************************************************)
(* assign_conversation, update_conversation_status and send_reply: an      *)
(* agent loads a conversation and commits a status, which                  *)
(* update_conversation_status takes from the request as it is.             *)
(***************************************************************************)
OpenConversation(a, t) ==
  /\ agent[a] = Away
  /\ conversation[t] # "none"
  /\ agent' = [agent EXCEPT ![a] = [thread |-> t, seen |-> conversation[t]]]
  /\ UNCHANGED <<events, delivery, queue, worker, stored, thread, conversation, jobs, settled, touched, raced>>

CommitConversation(a) ==
  LET q == agent[a] IN
  /\ q # Away
  /\ \E new \in Requested :
        conversation' = [conversation EXCEPT ![q.thread] = Written(new, q.seen, @)]
  /\ touched' = touched \cup {q.thread}
  /\ agent' = [agent EXCEPT ![a] = Away]
  /\ UNCHANGED <<events, delivery, queue, worker, stored, thread, jobs, settled, raced>>

Step(w) ==
  \/ Ignore(w) \/ Skip(w) \/ LookUp(w) \/ Store(w) \/ ListAnswers(w) \/ QueueJob(w)
  \/ ItemDone(w) \/ Finish(w) \/ WorkerFails(w) \/ WorkerDies(w)

Next ==
  \/ \E d \in Deliverers :
        \/ \E e \in Events : CheckEvent(d, e)
        \/ StoreEvent(d) \/ SubmitEvent(d) \/ DeliveryFails(d)
  \/ \E w \in Workers : Step(w) \/ \E e \in Events : TakeEvent(w, e)
  \/ \E a \in Agents : CommitConversation(a) \/ \E t \in Threads : OpenConversation(a, t)

Spec == Init /\ [][Next]_vars

--------------------------------------------------------------------------------
(***************************************************************************)
(* Properties.                                                             *)
(***************************************************************************)

\* Types of the tables, the requests and the workers.
TypeOK ==
  /\ events \in [Events -> Event]
  /\ delivery \in [Deliverers -> Delivery]
  /\ queue \in [Events -> Nat]
  /\ worker \in [Workers -> Worker]
  /\ stored \in [Rows -> Events \cup {Nobody}]
  /\ thread \in [Rows -> Threads \cup {Nobody}]
  /\ conversation \in [Threads -> ConversationStatuses \cup {"none"}]
  /\ agent \in [Agents -> Agent]
  /\ jobs \in [Rows -> SUBSET Answers]
  /\ settled \subseteq Rows /\ touched \subseteq Threads /\ raced \subseteq Items

\* However often and however concurrently an event is delivered, it is handed to a
\* worker once.
HandedOverOnce ==
  \A e \in Events :
    events[e].attempts + queue[e] + Cardinality({d \in Deliverers :
      delivery[d].pc = "created" /\ delivery[d].event = e}) <= 1

\* An event is marked processed only when every item it carries is stored, and the
\* jobs of the rows it wrote last have been decided.
ProcessedIsComplete ==
  \A e \in Events :
    events[e].status = "PROCESSED" =>
      /\ \A i \in Holds[e] : RowsOf(i) # {}
      /\ \A r \in Rows : stored[r] = e => r \in settled

\* However many events carry a message, under whatever keys, and wherever a worker fails
\* between two of its jobs, the workflows and the default reply are asked to answer it for
\* one row only, and the default reply only in place of the workflows, unless a worker
\* stored it while another had looked for it and found none.
AnswersTo(i) == {x \in Rows \X Answers : x[1][1] = i /\ x[2] \in jobs[x[1]]}
AnsweredOnce ==
  \A i \in Messages \ raced : \A x, y \in AnswersTo(i) :
    x[1] = y[1] /\ (x[2] = DefaultReply => y[2] = DefaultReply)

\* A conversation with an abusive message is escalated unless an agent has written it:
\* no other message, stored by another worker at the same time, reopens it.
AbuseEscalates ==
  \A r \in Rows :
    stored[r] # Nobody /\ r[1] \in Messages /\ <<stored[r], r[1]>> \in Abusive =>
      conversation[thread[r]] = "ESCALATED" \/ thread[r] \in touched
================================================================================
