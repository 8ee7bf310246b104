----------------------------- MODULE Webhooks_proofs -----------------------------
(***************************************************************************)
(* Proofs about Webhooks, for any number of deliveries, workers and        *)
(* agents, any payloads, and every fault of the model: an event is handed  *)
(* to one worker, a processed event is complete, a message is answered for *)
(* one row unless two workers stored it at one time, and an abusive        *)
(* message keeps its conversation escalated until an agent writes it.      *)
(***************************************************************************)
EXTENDS Webhooks, FiniteSetTheorems, TLAPS

(***************************************************************************)
(* What requests, workers and agents hold between their steps.             *)
(***************************************************************************)
Busy(w) == worker[w].pc # "idle"
AtRow == {"stored", "queueing"}       \* the row in hand is committed, its jobs are not all
Handling(w) == worker[w].pc \in {"looked"} \cup AtRow

DeliveryOK(h) == h.pc # "idle" => h.event \in Events
WorkerOK(w, h) ==
  /\ h.pc # "idle" => h.event \in Events
  /\ h.pc \in {"looked"} \cup AtRow =>
       h.item \in Items /\ h.owner \in Workers /\ (h.item \in Messages => h.owner = w)
  /\ h.pc = "looked" => /\ h.item \in Messages => h.thread \in Threads
                        /\ h.item \in Comments => h.thread = Nobody
AgentOK(h) == h # Away => h.thread \in Threads /\ conversation[h.thread] # "none"
HoldersOK ==
  /\ \A d \in Deliverers : DeliveryOK(delivery[d])
  /\ \A w \in Workers : WorkerOK(w, worker[w])
  /\ \A a \in Agents : AgentOK(agent[a])

(***************************************************************************)
(* Why an event reaches one worker: until it is stored nothing is done     *)
(* about it, and after that it is somewhere between its request, the queue *)
(* and its worker, which holds it while its status is PROCESSING.          *)
(***************************************************************************)
Telling(e) == {d \in Deliverers : delivery[d].pc = "created" /\ delivery[d].event = e}
Untold(e) ==
  events[e].status = "none" =>
    events[e].attempts = 0 /\ queue[e] = 0 /\ Cardinality(Telling(e)) = 0
InHand ==
  \A w \in Workers : Busy(w) =>
    events[worker[w].event].status = "PROCESSING" /\ events[worker[w].event].attempts > 0
OneHand ==
  \A v, w \in Workers : Busy(v) /\ Busy(w) /\ worker[v].event = worker[w].event => v = w
HandParts == HandedOverOnce /\ (\A e \in Events : Untold(e)) /\ InHand /\ OneHand

(***************************************************************************)
(* Why a processed event is complete: an item its worker has left behind   *)
(* is stored, and of the rows it wrote only the one in hand is undecided.  *)
(***************************************************************************)
LeftBehind ==
  \A w \in Workers : Busy(w) =>
    \A i \in Holds[worker[w].event] \ worker[w].todo :
      RowsOf(i) # {} \/ (worker[w].pc = "looked" /\ worker[w].item = i)
Undecided(r) == stored[r] # Nobody /\ r \notin settled
UndecidedInHand ==
  \A r \in Rows : Undecided(r) =>
    /\ events[stored[r]].attempts > 0
    /\ events[stored[r]].status # "PROCESSED"
    /\ \A w \in Workers : Busy(w) /\ worker[w].event = stored[r] =>
         worker[w].pc \in AtRow /\ r = <<worker[w].item, worker[w].owner>>
ItemsStored ==
  \A e \in Events : events[e].status = "PROCESSED" => \A i \in Holds[e] : RowsOf(i) # {}
CompleteParts == LeftBehind /\ UndecidedInHand /\ ItemsStored

(***************************************************************************)
(* Why a message is answered once: the first of its rows shows it to every *)
(* worker that looks afterwards, so that one which is about to store       *)
(* another had looked before.  The jobs of a row are those one list called *)
(* for, since a row of a message is answered by the worker that made it.   *)
(***************************************************************************)
Exclusive(answers) == \A k \in answers : DefaultReply \in answers => k = DefaultReply
OneRow == \A i \in Messages \ raced : \A r, x \in RowsOf(i) : r = x
LookedFirst ==
  \A w \in Workers : worker[w].pc = "looked" /\ worker[w].item \in Messages \ raced =>
    RowsOf(worker[w].item) = {}
RowInHand ==
  \A w \in Workers : worker[w].pc \in AtRow =>
    stored[<<worker[w].item, worker[w].owner>>] # Nobody
JobsStored == \A r \in Rows : jobs[r] # {} => stored[r] # Nobody
Unanswered ==
  \A w \in Workers : Handling(w) /\ worker[w].item \in Messages =>
    /\ worker[w].pc = "looked" => stored[<<worker[w].item, w>>] = Nobody
    /\ worker[w].pc # "queueing" => jobs[<<worker[w].item, w>>] = {}
    /\ worker[w].pc = "queueing" => Exclusive(jobs[<<worker[w].item, w>>] \cup worker[w].answers)
OneKind == \A r \in Rows : r[1] \in Messages => Exclusive(jobs[r])
AnswerParts == OneRow /\ LookedFirst /\ JobsStored /\ RowInHand /\ Unanswered /\ OneKind

(***************************************************************************)
(* Why abuse stays escalated: a conversation no agent has written is OPEN  *)
(* or ESCALATED, a worker that saw it ESCALATED still finds it so, and one *)
(* that saw none is about to create its own.                               *)
(***************************************************************************)
Untouched ==
  \A t \in Threads : t \notin touched => conversation[t] \in {"none", "OPEN", "ESCALATED"}
SeenOK(w, h) ==
  h.pc = "looked" /\ h.item \in Messages =>
    /\ h.seen = "none" => h.thread = w /\ conversation[h.thread] = "none"
    /\ h.seen # "none" => conversation[h.thread] # "none"
    /\ h.thread \notin touched => h.seen \in {"none", "OPEN", "ESCALATED"}
    /\ h.thread \notin touched /\ h.seen = "ESCALATED" =>
         conversation[h.thread] = "ESCALATED"
Seen == \A w \in Workers : SeenOK(w, worker[w])
Placed ==
  \A r \in Rows : stored[r] # Nobody /\ r[1] \in Messages =>
    thread[r] \in Threads /\ conversation[thread[r]] # "none"
EscalateParts == Untouched /\ Seen /\ Placed /\ AbuseEscalates

TypeInv == TypeOK /\ HoldersOK

(***************************************************************************)
(* Rows, workers and what their steps make of them.                        *)
(***************************************************************************)
LEMMA RowParts ==
  /\ \A r \in Rows : r = <<r[1], r[2]>> /\ r[1] \in Items /\ r[2] \in Workers
  /\ \A i \in Items, w \in Workers : <<i, w>> \in Rows
  /\ \A i, w : <<i, w>>[1] = i /\ <<i, w>>[2] = w
  BY DEF Rows

LEMMA ItemKinds ==
  /\ \A i \in Items : i \in Messages <=> i \notin Comments
  /\ Nobody \notin Items /\ Nobody \notin Workers /\ Nobody \notin Events
  /\ Workers = Threads
  BY WebhookAssumption DEF Items, Threads

LEMMA FreeFields ==
  /\ Free \in Worker /\ Free.pc = "idle" /\ Free.event = Nobody /\ Free.todo = {}
  /\ Free.item = Nobody /\ Free.owner = Nobody /\ Free.thread = Nobody /\ Free.seen = "none"
  /\ Free.answers = {}
  BY DEF Free, Worker, ConversationStatuses

\* The step of one worker leaves the others as they are.
LEMMA OneWorker ==
  ASSUME worker \in [Workers -> Worker], NEW w \in Workers, NEW n,
         worker' = [worker EXCEPT ![w] = n]
  PROVE  worker'[w] = n /\ \A v \in Workers : v # w => worker'[v] = worker[v]
  OBVIOUS

\* A worker between two items of an event.
Between(e, todo) == [Free EXCEPT !.pc = "next", !.event = e, !.todo = todo]

LEMMA NextFields ==
  ASSUME NEW e \in Events, NEW todo, \A i \in todo : i \in Items
  PROVE  /\ Between(e, todo) \in Worker /\ Between(e, todo).pc = "next"
         /\ Between(e, todo).event = e /\ Between(e, todo).todo = todo
  BY FreeFields DEF Free, Worker, Between

LEMMA TakeFields ==
  ASSUME TypeInv, NEW w \in Workers, NEW e \in Events, TakeEvent(w, e),
         events[e].status \notin {"PROCESSED", "IGNORED"}
  PROVE  \E n \in Worker : /\ worker' = [worker EXCEPT ![w] = n] /\ WorkerOK(w, n)
                           /\ n.pc = "next" /\ n.event = e /\ n.todo = Holds[e]
<1> DEFINE n == Between(e, Holds[e])
<1>1. \A i \in Holds[e] : i \in Items
  BY WebhookAssumption
<1>2. n \in Worker /\ n.pc = "next" /\ n.event = e /\ n.todo = Holds[e]
  BY <1>1, NextFields
<1>3. worker' = [worker EXCEPT ![w] = n]
  BY DEF TakeEvent, Between
<1> HIDE DEF n
<1>4. WorkerOK(w, n)
  BY <1>2 DEF WorkerOK, AtRow
<1>5. QED  BY <1>2, <1>3, <1>4

LEMMA SkipFields ==
  ASSUME TypeInv, NEW w \in Workers, Skip(w)
  PROVE  \E i \in worker[w].todo, n \in Worker :
           /\ worker' = [worker EXCEPT ![w] = n] /\ WorkerOK(w, n) /\ Known(i)
           /\ n.pc = "next" /\ n.event = worker[w].event /\ n.todo = worker[w].todo \ {i}
<1>1. PICK i \in worker[w].todo :
        Known(i) /\ worker' = [worker EXCEPT ![w].todo = @ \ {i}]
  BY DEF Skip
<1> DEFINE n == [worker[w] EXCEPT !.todo = @ \ {i}]
<1>2. worker[w] \in Worker /\ worker[w].pc = "next"
  BY DEF Skip, TypeInv, TypeOK
<1>3. /\ n \in Worker /\ n.pc = "next" /\ n.event = worker[w].event
      /\ n.todo = worker[w].todo \ {i}
  BY <1>2 DEF Worker
<1>4. worker' = [worker EXCEPT ![w] = n]
  BY <1>1 DEF TypeInv, TypeOK
<1> HIDE DEF n
<1>5. WorkerOK(w, n)
  BY <1>2, <1>3 DEF WorkerOK, AtRow, TypeInv, HoldersOK
<1>6. QED  BY <1>1, <1>3, <1>4, <1>5

LEMMA LookFields ==
  ASSUME TypeInv, NEW w \in Workers, LookUp(w)
  PROVE  \E i \in worker[w].todo, n \in Worker :
           /\ worker' = [worker EXCEPT ![w] = n] /\ WorkerOK(w, n) /\ ~Known(i)
           /\ n.pc = "looked" /\ n.event = worker[w].event /\ n.todo = worker[w].todo \ {i}
           /\ n.item = i
           /\ i \in Messages =>
                /\ n.thread \in IF Open # {} THEN Open ELSE {w}
                /\ n.seen = conversation[n.thread]
<1>1. PICK i \in worker[w].todo :
        /\ ~Known(i)
        /\ \E owner \in IF i \in Comments /\ RowsOf(i) # {} THEN {r[2] : r \in RowsOf(i)} ELSE {w},
              t \in IF i \in Comments THEN {Nobody} ELSE IF Open # {} THEN Open ELSE {w} :
             worker' = [worker EXCEPT ![w] =
               [worker[w] EXCEPT !.pc = "looked", !.todo = @ \ {i}, !.item = i, !.owner = owner,
                         !.thread = t, !.seen = IF t = Nobody THEN "none" ELSE conversation[t]]]
  BY DEF LookUp
<1>2. worker[w] \in Worker /\ worker[w].pc = "next" /\ i \in Items /\ worker[w].event \in Events
  BY DEF LookUp, TypeInv, TypeOK, Worker, HoldersOK, WorkerOK
<1>3. PICK owner \in IF i \in Comments /\ RowsOf(i) # {} THEN {r[2] : r \in RowsOf(i)} ELSE {w},
           t \in IF i \in Comments THEN {Nobody} ELSE IF Open # {} THEN Open ELSE {w} :
        worker' = [worker EXCEPT ![w] =
          [worker[w] EXCEPT !.pc = "looked", !.todo = @ \ {i}, !.item = i, !.owner = owner,
                    !.thread = t, !.seen = IF t = Nobody THEN "none" ELSE conversation[t]]]
  BY <1>1
<1>a. owner \in Workers
  <2>1. \A r \in RowsOf(i) : r[2] \in Workers
    BY RowParts DEF RowsOf
  <2>2. QED  BY <2>1
<1>b. t \in Threads \cup {Nobody}
  <2>1. Open \subseteq Threads /\ w \in Threads
    BY ItemKinds DEF Open
  <2>2. QED  BY <2>1
<1>c. /\ i \in Messages => owner = w /\ t \in IF Open # {} THEN Open ELSE {w}
      /\ i \in Comments => t = Nobody
  BY <1>2, ItemKinds
<1> DEFINE s == IF t = Nobody THEN "none" ELSE conversation[t]
           rest == worker[w].todo \ {i}
<1>4. s \in ConversationStatuses \cup {"none"} /\ rest \in SUBSET Items
  BY <1>2, <1>b DEF TypeInv, TypeOK, Worker
<1>5. i \in Messages => t # Nobody /\ t \in Threads /\ s = conversation[t]
  BY <1>c, ItemKinds DEF Open
<1> DEFINE n == [worker[w] EXCEPT !.pc = "looked", !.todo = @ \ {i}, !.item = i,
                    !.owner = owner, !.thread = t,
                    !.seen = IF t = Nobody THEN "none" ELSE conversation[t]]
<1>7. worker' = [worker EXCEPT ![w] = n]
  BY <1>3
<1>6. /\ n \in Worker /\ n.pc = "looked" /\ n.event = worker[w].event /\ n.todo = rest
      /\ n.item = i /\ n.owner = owner /\ n.thread = t /\ n.seen = s
  BY <1>2, <1>4, <1>a, <1>b DEF Worker
<1> HIDE DEF n
<1>8. WorkerOK(w, n)
  BY <1>2, <1>a, <1>c, <1>5, <1>6 DEF WorkerOK, AtRow
<1>9. QED  BY <1>1, <1>c, <1>5, <1>6, <1>7, <1>8 DEF rest

\* A worker at an item, and the item's row.
LEMMA HandlingFields ==
  ASSUME TypeInv, NEW w \in Workers, Handling(w)
  PROVE  /\ worker[w] \in Worker /\ worker[w].event \in Events /\ worker[w].item \in Items
         /\ worker[w].owner \in Workers /\ <<worker[w].item, worker[w].owner>> \in Rows
         /\ worker[w].item \in Messages => worker[w].owner = w
<1>1. worker[w] \in Worker /\ WorkerOK(w, worker[w])
  BY DEF TypeInv, TypeOK, HoldersOK
<1>2. /\ worker[w].event \in Events /\ worker[w].item \in Items /\ worker[w].owner \in Workers
      /\ worker[w].item \in Messages => worker[w].owner = w
  BY <1>1 DEF WorkerOK, Handling, AtRow
<1>3. QED  BY <1>1, <1>2, RowParts

LEMMA StoreFields ==
  ASSUME TypeInv, NEW w \in Workers, Store(w)
  PROVE  /\ worker[w].pc = "looked" /\ worker[w].event \in Events /\ worker[w].item \in Items
         /\ <<worker[w].item, worker[w].owner>> \in Rows
         /\ \E n \in Worker :
              /\ worker' = [worker EXCEPT ![w] = n] /\ WorkerOK(w, n)
              /\ n.pc = "stored" /\ n.event = worker[w].event /\ n.todo = worker[w].todo
              /\ n.item = worker[w].item /\ n.owner = worker[w].owner
<1>1. worker[w].pc = "looked" /\ Handling(w)
  BY DEF Store, Handling
<1>2. /\ worker[w] \in Worker /\ worker[w].event \in Events /\ worker[w].item \in Items
      /\ worker[w].owner \in Workers /\ <<worker[w].item, worker[w].owner>> \in Rows
      /\ worker[w].item \in Messages => worker[w].owner = w
  BY <1>1, HandlingFields
<1> DEFINE n == [worker[w] EXCEPT !.pc = "stored", !.thread = Nobody, !.seen = "none"]
<1>3. /\ n \in Worker /\ n.pc = "stored" /\ n.event = worker[w].event
      /\ n.todo = worker[w].todo /\ n.item = worker[w].item /\ n.owner = worker[w].owner
  BY <1>2 DEF Worker
<1>4. worker' = [worker EXCEPT ![w] = n]
  BY DEF Store, TypeInv, TypeOK
<1> HIDE DEF n
<1>5. WorkerOK(w, n)
  BY <1>2, <1>3 DEF WorkerOK, AtRow
<1>6. QED  BY <1>1, <1>2, <1>3, <1>4, <1>5

\* The jobs a list calls for.
LEMMA CalledAnswers ==
  ASSUME NEW e, NEW i, NEW answers \in Called(e, i)
  PROVE  answers \in SUBSET Answers /\ Exclusive(answers)
  BY WebhookAssumption DEF Called, Answers, Exclusive

\* A worker that stays at its item's row.
LEMMA AnswerFields ==
  ASSUME TypeInv, NEW w \in Workers, ListAnswers(w) \/ QueueJob(w)
  PROVE  /\ worker[w].pc \in AtRow /\ Handling(w)
         /\ \E n \in Worker :
              /\ worker' = [worker EXCEPT ![w] = n] /\ WorkerOK(w, n)
              /\ n.pc = "queueing" /\ n.event = worker[w].event /\ n.todo = worker[w].todo
              /\ n.item = worker[w].item /\ n.owner = worker[w].owner
              /\ ListAnswers(w) => worker[w].pc = "stored" /\ Exclusive(n.answers)
              /\ QueueJob(w) => \E k \in worker[w].answers :
                   /\ n.answers = worker[w].answers \ {k} /\ k \in Answers
                   /\ jobs' = [jobs EXCEPT ![<<worker[w].item, worker[w].owner>>] = @ \cup {k}]
<1>1. worker[w].pc \in AtRow /\ Handling(w) /\ (QueueJob(w) => worker[w].pc = "queueing")
      /\ (ListAnswers(w) => worker[w].pc = "stored")
  BY DEF ListAnswers, QueueJob, Handling, AtRow
<1>2. /\ worker[w] \in Worker /\ worker[w].event \in Events /\ worker[w].item \in Items
      /\ worker[w].owner \in Workers /\ <<worker[w].item, worker[w].owner>> \in Rows
      /\ worker[w].item \in Messages => worker[w].owner = w
  BY <1>1, HandlingFields
<1>3. ASSUME NEW answers \in SUBSET Answers, NEW n,
             n = [worker[w] EXCEPT !.pc = "queueing", !.answers = answers]
      PROVE  /\ n \in Worker /\ WorkerOK(w, n)
             /\ n.pc = "queueing" /\ n.event = worker[w].event /\ n.todo = worker[w].todo
             /\ n.item = worker[w].item /\ n.owner = worker[w].owner /\ n.answers = answers
  <2>1. /\ n \in Worker /\ n.pc = "queueing" /\ n.event = worker[w].event
        /\ n.todo = worker[w].todo
        /\ n.item = worker[w].item /\ n.owner = worker[w].owner /\ n.answers = answers
    BY <1>2, <1>3 DEF Worker
  <2>2. WorkerOK(w, n)
    BY <1>2, <2>1 DEF WorkerOK, AtRow
  <2>3. QED  BY <2>1, <2>2
<1>4. CASE ListAnswers(w)
  <2>1. PICK answers \in Called(worker[w].event, worker[w].item) :
          worker' = [worker EXCEPT ![w] = [worker[w] EXCEPT !.pc = "queueing", !.answers = answers]]
    BY <1>4 DEF ListAnswers
  <2>2. answers \in SUBSET Answers /\ Exclusive(answers)
    BY CalledAnswers
  <2>3. ~QueueJob(w)
    BY <1>1, <1>4
  <2> DEFINE n == [worker[w] EXCEPT !.pc = "queueing", !.answers = answers]
  <2>4. /\ n \in Worker /\ WorkerOK(w, n)
        /\ n.pc = "queueing" /\ n.event = worker[w].event /\ n.todo = worker[w].todo
        /\ n.item = worker[w].item /\ n.owner = worker[w].owner /\ n.answers = answers
    BY <1>3, <2>2
  <2>5. worker' = [worker EXCEPT ![w] = n]
    BY <2>1
  <2> HIDE DEF n
  <2>6. QED  BY <1>1, <2>2, <2>3, <2>4, <2>5
<1>5. CASE QueueJob(w)
  <2>1. PICK k \in worker[w].answers :
          /\ jobs' = [jobs EXCEPT ![<<worker[w].item, worker[w].owner>>] = @ \cup {k}]
          /\ worker' = [worker EXCEPT ![w].answers = @ \ {k}]
    BY <1>5 DEF QueueJob
  <2> DEFINE answers == worker[w].answers \ {k}
             n == [worker[w] EXCEPT !.pc = "queueing", !.answers = answers]
  <2>2. answers \in SUBSET Answers /\ k \in Answers
    BY <1>2, <2>1 DEF Worker
  <2>3. worker' = [worker EXCEPT ![w] = n]
    BY <1>1, <1>2, <1>5, <2>1 DEF Worker, TypeInv, TypeOK
  <2>4. /\ n \in Worker /\ WorkerOK(w, n)
        /\ n.pc = "queueing" /\ n.event = worker[w].event /\ n.todo = worker[w].todo
        /\ n.item = worker[w].item /\ n.owner = worker[w].owner /\ n.answers = answers
    <3> HIDE DEF answers
    <3>1. QED  BY <1>3, <2>2
  <2>5. ~ListAnswers(w)
    BY <1>1, <1>5
  <2> HIDE DEF n
  <2>6. QED  BY <1>1, <2>1, <2>2, <2>3, <2>4, <2>5
<1>6. QED  BY <1>4, <1>5

LEMMA DoneFields ==
  ASSUME TypeInv, NEW w \in Workers, ItemDone(w)
  PROVE  /\ worker[w].pc = "queueing" /\ worker[w].event \in Events /\ worker[w].item \in Items
         /\ <<worker[w].item, worker[w].owner>> \in Rows
         /\ \E n \in Worker :
              /\ worker' = [worker EXCEPT ![w] = n] /\ WorkerOK(w, n)
              /\ n.pc = "next" /\ n.event = worker[w].event /\ n.todo = worker[w].todo
<1>1. worker[w].pc = "queueing" /\ Handling(w)
  BY DEF ItemDone, Handling, AtRow
<1>2. /\ worker[w].event \in Events /\ worker[w].item \in Items
      /\ <<worker[w].item, worker[w].owner>> \in Rows
      /\ \A i \in worker[w].todo : i \in Items
  BY <1>1, HandlingFields DEF Worker
<1> DEFINE n == Between(worker[w].event, worker[w].todo)
<1>3. /\ n \in Worker /\ n.pc = "next" /\ n.event = worker[w].event
      /\ n.todo = worker[w].todo
  BY <1>2, NextFields
<1>4. worker' = [worker EXCEPT ![w] = n]
  BY DEF ItemDone, Between
<1> HIDE DEF n
<1>5. WorkerOK(w, n)
  BY <1>2, <1>3 DEF WorkerOK, AtRow
<1>6. QED  BY <1>1, <1>2, <1>3, <1>4, <1>5

(***************************************************************************)
(* Types, and what requests, workers and agents hold.                      *)
(***************************************************************************)
Holders ==
  /\ \A d \in Deliverers : DeliveryOK(delivery[d])
  /\ \A w \in Workers : WorkerOK(w, worker[w])
ConversationsStay ==
  \A t \in Threads : conversation[t] # "none" => conversation'[t] # "none"

\* The status an inbound message leaves in the conversation it was loaded from.
LEMMA ReceivedStatus ==
  ASSUME NEW seen \in ConversationStatuses \cup {"none"}, NEW b
  PROVE  /\ Received(seen, b) \in {"OPEN", "ESCALATED", seen}
         /\ Received(seen, b) \in ConversationStatuses
  BY DEF Received, ConversationStatuses

\* A worker step that keeps types also keeps what the worker may hold.
LEMMA HeldStep ==
  ASSUME TypeInv, NEW w \in Workers, NEW n \in Worker, WorkerOK(w, n),
         worker' = [worker EXCEPT ![w] = n], delivery' = delivery
  PROVE  worker' \in [Workers -> Worker] /\ Holders'
<1>1. worker' \in [Workers -> Worker]
  BY DEF TypeInv, TypeOK
<1>2. ASSUME NEW v \in Workers PROVE WorkerOK(v, worker[v])'
  <2>1. WorkerOK(v, worker'[v])
    BY OneWorker DEF TypeInv, TypeOK, HoldersOK
  <2>2. QED  BY <2>1 DEF WorkerOK
<1>3. QED  BY <1>1, <1>2 DEF Holders, TypeInv, HoldersOK, DeliveryOK

LEMMA FreeOK ==
  ASSUME NEW w \in Workers
  PROVE  Free \in Worker /\ WorkerOK(w, Free)
  BY FreeFields DEF WorkerOK, AtRow

\* The agents' conversations go on existing.
LEMMA AgentsStay ==
  ASSUME TypeInv, agent' = agent, ConversationsStay
  PROVE  \A a \in Agents : AgentOK(agent[a])'
  BY DEF TypeInv, HoldersOK, AgentOK, ConversationsStay

LEMMA DeliveryType ==
  ASSUME TypeInv, NEW d \in Deliverers,
         \/ \E e \in Events : CheckEvent(d, e)
         \/ StoreEvent(d) \/ SubmitEvent(d) \/ DeliveryFails(d)
  PROVE  TypeInv'
<1> USE DEF TypeInv
<1>0. /\ UNCHANGED <<worker, stored, thread, conversation, agent, jobs, settled, touched, raced>>
      /\ delivery[d] \in Delivery /\ DeliveryOK(delivery[d])
  BY DEF CheckEvent, StoreEvent, SubmitEvent, DeliveryFails, TypeOK, HoldersOK
<1>1. /\ NoDelivery \in Delivery /\ DeliveryOK(NoDelivery)
      /\ \A e \in Events, pc \in {"checked", "created"} :
           [pc |-> pc, event |-> e] \in Delivery /\ DeliveryOK([pc |-> pc, event |-> e])
  BY DEF NoDelivery, Delivery, DeliveryOK
<1>2. PICK n \in Delivery : delivery' = [delivery EXCEPT ![d] = n] /\ DeliveryOK(n)
  <2>1. CASE \E e \in Events : CheckEvent(d, e)
    BY <1>1, <2>1 DEF CheckEvent
  <2>2. CASE StoreEvent(d)
    <3>1. [delivery[d] EXCEPT !.pc = "created"] \in Delivery
          /\ DeliveryOK([delivery[d] EXCEPT !.pc = "created"])
      BY <1>0, <2>2 DEF StoreEvent, Delivery, DeliveryOK
    <3>2. delivery' = [delivery EXCEPT ![d] = [delivery[d] EXCEPT !.pc = "created"]]
          \/ delivery' = [delivery EXCEPT ![d] = NoDelivery]
      BY <2>2 DEF StoreEvent, TypeOK
    <3>3. QED  BY <1>1, <3>1, <3>2
  <2>3. CASE SubmitEvent(d)
    BY <1>1, <2>3 DEF SubmitEvent
  <2>4. CASE DeliveryFails(d)
    BY <1>1, <2>4 DEF DeliveryFails
  <2>5. QED  BY <2>1, <2>2, <2>3, <2>4
<1>3. events' \in [Events -> Event] /\ queue' \in [Events -> Nat]
  <2>1. CASE StoreEvent(d)
    <3>1. ASSUME NEW found \in BOOLEAN
          PROVE  [NoEvent EXCEPT !.status = "PENDING", !.account = found] \in Event
      BY DEF NoEvent, Event, EventStatuses
    <3>2. events' \in [Events -> Event]
      <4>1. CASE events' = events
        BY <4>1 DEF TypeOK
      <4>2. CASE events' # events
        <5>1. PICK found \in BOOLEAN :
                events' = [events EXCEPT ![delivery[d].event] =
                            [NoEvent EXCEPT !.status = "PENDING", !.account = found]]
          BY <2>1, <4>2 DEF StoreEvent
        <5>2. QED  BY <3>1, <5>1 DEF TypeOK
      <4>3. QED  BY <4>1, <4>2
    <3>3. QED  BY <2>1, <3>2 DEF StoreEvent, TypeOK
  <2>2. CASE ~StoreEvent(d)
    BY <2>2 DEF CheckEvent, SubmitEvent, DeliveryFails, TypeOK
  <2>3. QED  BY <2>1, <2>2
<1>4. TypeOK'
  BY <1>0, <1>2, <1>3 DEF TypeOK
<1>5. \A x \in Deliverers : DeliveryOK(delivery[x])'
  BY <1>2 DEF TypeOK, HoldersOK, DeliveryOK
<1>6. HoldersOK'
  BY <1>0, <1>5, AgentsStay DEF HoldersOK, WorkerOK, ConversationsStay
<1>7. QED  BY <1>4, <1>6

\* The steps of a worker that write nothing but its events' statuses.
LEMMA ReadType ==
  ASSUME TypeInv, NEW w \in Workers,
         \/ \E e \in Events : TakeEvent(w, e)
         \/ Ignore(w) \/ Skip(w) \/ LookUp(w) \/ Finish(w) \/ WorkerDies(w)
  PROVE  TypeInv'
<1> USE DEF TypeInv
<1>1. UNCHANGED <<delivery, stored, thread, conversation, agent, jobs, settled, touched, raced>>
  BY DEF TakeEvent, Ignore, Skip, LookUp, Finish, WorkerDies
<1>2. worker' \in [Workers -> Worker] /\ Holders'
  <2>0. CASE UNCHANGED worker
    BY <1>1, <2>0 DEF TypeOK, Holders, HoldersOK, DeliveryOK, WorkerOK
  <2>1. CASE \E e \in Events : TakeEvent(w, e)
    BY <1>1, <2>0, <2>1, TakeFields, HeldStep DEF TakeEvent
  <2>2. CASE Skip(w)
    BY <1>1, <2>2, SkipFields, HeldStep
  <2>3. CASE LookUp(w)
    BY <1>1, <2>3, LookFields, HeldStep
  <2>4. CASE Ignore(w) \/ Finish(w) \/ WorkerDies(w)
    BY <1>1, <2>4, FreeOK, HeldStep DEF Ignore, Finish, WorkerDies
  <2>5. QED  BY <2>1, <2>2, <2>3, <2>4
<1>3. events' \in [Events -> Event]
  <2>1. ASSUME NEW e, NEW s \in EventStatuses, events' = [events EXCEPT ![e].status = s]
        PROVE  events' \in [Events -> Event]
    BY <2>1 DEF TypeOK, Event
  <2>2. CASE \E e \in Events : TakeEvent(w, e)
    <3>1. PICK e \in Events : TakeEvent(w, e)
      BY <2>2
    <3>2. [events[e] EXCEPT !.status = "PROCESSING", !.attempts = @ + 1] \in Event
      <4>1. events[e] \in Event /\ events[e].attempts + 1 \in Nat
        BY DEF TypeOK, Event
      <4>2. QED  BY <4>1 DEF Event, EventStatuses
    <3>3. UNCHANGED events \/
          events' = [events EXCEPT ![e] =
                      [events[e] EXCEPT !.status = "PROCESSING", !.attempts = @ + 1]]
      BY <3>1 DEF TakeEvent, TypeOK
    <3>4. QED  BY <3>2, <3>3 DEF TypeOK
  <2>3. CASE Ignore(w) \/ Finish(w)
    BY <2>1, <2>3 DEF Ignore, Finish, EventStatuses
  <2>4. CASE Skip(w) \/ LookUp(w) \/ WorkerDies(w)
    BY <2>4 DEF Skip, LookUp, WorkerDies, TypeOK
  <2>5. QED  BY <2>2, <2>3, <2>4
<1>4. queue' \in [Events -> Nat]
  <2>1. ASSUME NEW e \in Events, TakeEvent(w, e)
        PROVE  queue' \in [Events -> Nat]
    <3>1. queue[e] \in Nat /\ queue[e] > 0
      BY <2>1 DEF TakeEvent, TypeOK
    <3>2. queue[e] - 1 \in Nat
      BY <3>1
    <3>3. queue' = [queue EXCEPT ![e] = queue[e] - 1]
      BY <2>1 DEF TakeEvent, TypeOK
    <3>4. QED  BY <3>2, <3>3 DEF TypeOK
  <2>2. CASE queue' = queue
    BY <2>2 DEF TypeOK
  <2>3. QED  BY <2>1, <2>2 DEF Ignore, Skip, LookUp, Finish, WorkerDies
<1>5. TypeOK'
  BY <1>1, <1>2, <1>3, <1>4 DEF TypeOK
<1>6. QED  BY <1>1, <1>2, <1>5, AgentsStay DEF HoldersOK, Holders, ConversationsStay

LEMMA StoreType ==
  ASSUME TypeInv, NEW w \in Workers, Store(w)
  PROVE  TypeInv' /\ ConversationsStay
<1> USE DEF TypeInv
<1> DEFINE q == worker[w]
           r == <<q.item, q.owner>>
<1>1. /\ worker[w] \in Worker /\ WorkerOK(w, worker[w]) /\ worker[w].pc = "looked"
      /\ worker[w].event \in Events /\ r \in Rows
      /\ UNCHANGED <<events, delivery, queue, agent, jobs, settled, touched>>
  BY StoreFields DEF Store, TypeOK, HoldersOK
<1>2. worker' \in [Workers -> Worker] /\ Holders'
  BY <1>1, StoreFields, HeldStep
<1>3. /\ stored' \in [Rows -> Events \cup {Nobody}]
      /\ thread' \in [Rows -> Threads \cup {Nobody}]
  BY <1>1 DEF Store, TypeOK, Worker
<1>4. /\ conversation' \in [Threads -> ConversationStatuses \cup {"none"}]
      /\ ConversationsStay
  <2>1. CASE q.item \in Messages
    <3> DEFINE new == Received(q.seen, <<q.event, q.item>> \in Abusive)
               left == Written(new, q.seen, conversation[q.thread])
    <3>1. new \in ConversationStatuses
      BY <1>1, ReceivedStatus DEF Worker
    <3>2. conversation' = [conversation EXCEPT ![q.thread] = left]
      BY <2>1 DEF Store, TypeOK
    <3> HIDE DEF new
    <3>3. left = conversation[q.thread] \/ left \in ConversationStatuses
      BY <3>1 DEF Written
    <3> HIDE DEF left
    <3>4. "none" \notin ConversationStatuses
      BY DEF ConversationStatuses
    <3>5. QED  BY <3>2, <3>3, <3>4 DEF TypeOK, ConversationsStay
  <2>2. CASE q.item \notin Messages
    BY <2>2 DEF Store, TypeOK, ConversationsStay
  <2>3. QED  BY <2>1, <2>2
<1>a. raced' \subseteq Items
  BY <1>1 DEF Store, TypeOK, Worker, WorkerOK
<1>5. TypeOK'
  BY <1>1, <1>2, <1>3, <1>4, <1>a DEF TypeOK
<1>6. QED  BY <1>1, <1>2, <1>4, <1>5, AgentsStay DEF HoldersOK, Holders

LEMMA QueueType ==
  ASSUME TypeInv, NEW w \in Workers, ListAnswers(w) \/ QueueJob(w) \/ ItemDone(w)
  PROVE  TypeInv'
<1> USE DEF TypeInv
<1> DEFINE r == <<worker[w].item, worker[w].owner>>
<1>1. /\ r \in Rows
      /\ UNCHANGED <<events, delivery, queue, stored, thread, conversation, agent, touched, raced>>
  BY AnswerFields, HandlingFields, DoneFields DEF ListAnswers, QueueJob, ItemDone
<1>2. worker' \in [Workers -> Worker] /\ Holders'
  BY <1>1, AnswerFields, DoneFields, HeldStep
<1>3. jobs' \in [Rows -> SUBSET Answers] /\ settled' \subseteq Rows
  <2>1. CASE ListAnswers(w)
    BY <2>1 DEF ListAnswers, TypeOK
  <2>2. CASE QueueJob(w)
    <3>1. PICK k \in Answers : jobs' = [jobs EXCEPT ![r] = @ \cup {k}]
      BY <2>2, AnswerFields
    <3>2. settled' = settled
      BY <2>2 DEF QueueJob
    <3> HIDE DEF r
    <3>3. QED  BY <1>1, <3>1, <3>2 DEF TypeOK
  <2>3. CASE ItemDone(w)
    BY <1>1, <2>3 DEF ItemDone, TypeOK
  <2>4. QED  BY <2>1, <2>2, <2>3
<1>4. TypeOK'
  BY <1>1, <1>2, <1>3 DEF TypeOK
<1>5. QED  BY <1>1, <1>2, <1>4, AgentsStay DEF HoldersOK, Holders, ConversationsStay

LEMMA FailType ==
  ASSUME TypeInv, NEW w \in Workers, WorkerFails(w)
  PROVE  TypeInv' /\ ConversationsStay
<1> USE DEF TypeInv
<1>1. UNCHANGED <<delivery, queue, stored, thread, agent, jobs, settled, touched, raced>>
      /\ worker' = [worker EXCEPT ![w] = Free]
  BY DEF WorkerFails
<1>2. worker' \in [Workers -> Worker] /\ Holders'
  BY <1>1, FreeOK, HeldStep
<1>3. events' \in [Events -> Event]
  BY DEF WorkerFails, TypeOK, Event, EventStatuses
<1>4. /\ conversation' \in [Threads -> ConversationStatuses \cup {"none"}]
      /\ ConversationsStay
  <2>1. \/ UNCHANGED conversation
        \/ \E fresh \in {"none", "OPEN"} : conversation' =
             [conversation EXCEPT ![worker[w].thread] = Written(fresh, "none", @)]
    BY DEF WorkerFails
  <2>2. QED  BY <2>1 DEF TypeOK, ConversationsStay, Written, ConversationStatuses
<1>5. TypeOK'
  BY <1>1, <1>2, <1>3, <1>4 DEF TypeOK
<1>6. QED  BY <1>1, <1>2, <1>4, <1>5, AgentsStay DEF HoldersOK, Holders

LEMMA AgentType ==
  ASSUME TypeInv, NEW a \in Agents,
         CommitConversation(a) \/ \E t \in Threads : OpenConversation(a, t)
  PROVE  TypeInv'
<1> USE DEF TypeInv
<1>1. UNCHANGED <<events, delivery, queue, worker, stored, thread, jobs, settled, raced>>
  BY DEF CommitConversation, OpenConversation
<1>2. Holders'
  BY <1>1 DEF Holders, HoldersOK, DeliveryOK, WorkerOK
<1>3. CASE CommitConversation(a)
  <2>1. agent[a] # Away /\ agent[a].thread \in Threads /\ conversation[agent[a].thread] # "none"
    BY <1>3 DEF CommitConversation, HoldersOK, AgentOK
  <2>2. PICK left \in ConversationStatuses :
          conversation' = [conversation EXCEPT ![agent[a].thread] = left]
    <3>1. PICK new \in ConversationStatuses :
            conversation' = [conversation EXCEPT ![agent[a].thread] =
                              Written(new, agent[a].seen, @)]
      BY <1>3, WebhookAssumption DEF CommitConversation
    <3>2. conversation[agent[a].thread] \in ConversationStatuses
      BY <2>1 DEF TypeOK
    <3>3. QED  BY <2>1, <3>1, <3>2 DEF Written, TypeOK
  <2>3. "none" \notin ConversationStatuses
    BY DEF ConversationStatuses
  <2>4. /\ conversation' \in [Threads -> ConversationStatuses \cup {"none"}]
        /\ ConversationsStay
    BY <2>2, <2>3 DEF TypeOK, ConversationsStay
  <2>5. Away \in Agent /\ agent' = [agent EXCEPT ![a] = Away]
        /\ touched' = touched \cup {agent[a].thread}
    BY <1>3 DEF CommitConversation, Away, Agent
  <2>6. TypeOK'
    BY <1>1, <2>1, <2>4, <2>5 DEF TypeOK
  <2>7. ASSUME NEW b \in Agents PROVE AgentOK(agent[b])'
    BY <2>4, <2>5 DEF HoldersOK, AgentOK, ConversationsStay, TypeOK
  <2>8. QED  BY <1>2, <2>6, <2>7 DEF HoldersOK, Holders
<1>4. ASSUME NEW t \in Threads, OpenConversation(a, t)
      PROVE  TypeInv'
  <2>1. /\ conversation' = conversation /\ touched' = touched /\ conversation[t] # "none"
        /\ agent' = [agent EXCEPT ![a] = [thread |-> t, seen |-> conversation[t]]]
    BY <1>4 DEF OpenConversation
  <2>2. [thread |-> t, seen |-> conversation[t]] \in Agent
    BY DEF Agent, TypeOK
  <2>3. TypeOK'
    BY <1>1, <2>1, <2>2 DEF TypeOK
  <2>4. ASSUME NEW b \in Agents PROVE AgentOK(agent[b])'
    BY <2>1 DEF HoldersOK, AgentOK, TypeOK
  <2>5. QED  BY <1>2, <2>3, <2>4 DEF HoldersOK, Holders
<1>5. QED  BY <1>3, <1>4

LEMMA TypeStep ==
  ASSUME TypeInv, [Next]_vars
  PROVE  TypeInv'
<1>1. CASE UNCHANGED vars
  BY <1>1 DEF vars, TypeInv, TypeOK, HoldersOK, DeliveryOK, WorkerOK, AgentOK
<1>2. QED
  BY <1>1, DeliveryType, ReadType, StoreType, QueueType, FailType, AgentType DEF Next, Step

(***************************************************************************)
(* An event is handed over once.                                           *)
(***************************************************************************)
HandInv == TypeInv /\ HandParts
Once(e) == events[e].attempts + queue[e] + Cardinality(Telling(e)) <= 1

LEMMA OnceIsOnce == HandedOverOnce <=> \A e \in Events : Once(e)
  BY DEF HandedOverOnce, Once, Telling

LEMMA Counts ==
  ASSUME TypeOK, NEW e \in Events
  PROVE  /\ events[e] \in Event /\ events[e].attempts \in Nat /\ queue[e] \in Nat
         /\ IsFiniteSet(Telling(e)) /\ Cardinality(Telling(e)) \in Nat
<1>1. events[e] \in Event /\ events[e].attempts \in Nat /\ queue[e] \in Nat
  BY DEF TypeOK, Event
<1>2. Telling(e) \subseteq Deliverers /\ IsFiniteSet(Deliverers)
  BY WebhookAssumption DEF Telling
<1>3. IsFiniteSet(Telling(e))
  BY <1>2, FS_Subset
<1>4. QED  BY <1>1, <1>3, FS_CardinalityType

\* The requests that have an event to hand over, when request d moves.
LEMMA TellCount ==
  ASSUME TypeOK, NEW d \in Deliverers, NEW n, delivery' = [delivery EXCEPT ![d] = n],
         NEW e \in Events
  PROVE  LET was == delivery[d].pc = "created" /\ delivery[d].event = e
             is == n.pc = "created" /\ n.event = e
         IN  /\ Cardinality(Telling(e)') \in Nat
             /\ (was <=> is) => Cardinality(Telling(e)') = Cardinality(Telling(e))
             /\ was /\ ~is => Cardinality(Telling(e)') = Cardinality(Telling(e)) - 1
             /\ ~was /\ is => Cardinality(Telling(e)') = Cardinality(Telling(e)) + 1
<1> DEFINE was == delivery[d].pc = "created" /\ delivery[d].event = e
           is == n.pc = "created" /\ n.event = e
<1>1. IsFiniteSet(Telling(e)) /\ Cardinality(Telling(e)) \in Nat
  BY Counts
<1>2. /\ d \in Telling(e) <=> was
      /\ Telling(e)' = IF is THEN Telling(e) \cup {d} ELSE Telling(e) \ {d}
  BY DEF Telling, TypeOK
<1> HIDE DEF was, is
<1>3. CASE is
  <2>1. Telling(e)' = Telling(e) \cup {d}
    BY <1>2, <1>3
  <2>2. Cardinality(Telling(e) \cup {d}) =
          IF d \in Telling(e) THEN Cardinality(Telling(e)) ELSE Cardinality(Telling(e)) + 1
    BY <1>1, FS_AddElement
  <2>3. QED  BY <1>1, <1>2, <1>3, <2>1, <2>2 DEF was, is
<1>4. CASE ~is
  <2>1. Telling(e)' = Telling(e) \ {d}
    BY <1>2, <1>4
  <2>2. /\ IsFiniteSet(Telling(e) \ {d})
        /\ Cardinality(Telling(e) \ {d}) =
             IF d \in Telling(e) THEN Cardinality(Telling(e)) - 1 ELSE Cardinality(Telling(e))
    BY <1>1, FS_RemoveElement
  <2>3. Cardinality(Telling(e)') \in Nat
    BY <2>1, <2>2, FS_CardinalityType
  <2>4. QED  BY <1>1, <1>2, <1>4, <2>1, <2>2, <2>3 DEF was, is
<1>5. QED  BY <1>3, <1>4

\* Requests and agents do not move what the workers hold.
LEMMA OthersInHand ==
  ASSUME HandInv, worker' = worker,
         \A e \in Events : events[e].status # "none" => events'[e] = events[e]
  PROVE  InHand' /\ OneHand'
<1>1. \A w \in Workers : Busy(w) => worker[w].event \in Events
  BY DEF HandInv, TypeInv, HoldersOK, WorkerOK, Busy
<1>2. QED  BY <1>1 DEF HandInv, HandParts, InHand, OneHand, Busy

LEMMA DeliveryHand ==
  ASSUME HandInv, NEW d \in Deliverers,
         \/ \E e \in Events : CheckEvent(d, e)
         \/ StoreEvent(d) \/ SubmitEvent(d) \/ DeliveryFails(d)
  PROVE  HandParts'
<1> DEFINE f == delivery[d].event
<1>1. TypeOK /\ worker' = worker /\ DeliveryOK(delivery[d])
  BY DEF HandInv, TypeInv, HoldersOK, CheckEvent, StoreEvent, SubmitEvent, DeliveryFails
<1>2. ASSUME NEW e \in Events PROVE Once(e) /\ Untold(e)
  BY OnceIsOnce DEF HandInv, HandParts
<1>3. NoDelivery.pc = "idle"
  BY DEF NoDelivery
<1>4. CASE StoreEvent(d) /\ events[f].status = "none"
  <2>1. f \in Events /\ delivery[d].pc = "checked"
    BY <1>1, <1>4 DEF StoreEvent, DeliveryOK
  <2>2. /\ delivery' = [delivery EXCEPT ![d] = [delivery[d] EXCEPT !.pc = "created"]]
        /\ queue' = queue
    BY <1>1, <1>4 DEF StoreEvent, Created, TypeOK
  <2>3. /\ events'[f].attempts = 0 /\ events'[f].status = "PENDING"
        /\ \A e \in Events : e # f => events'[e] = events[e]
    <3>1. PICK found \in BOOLEAN :
            events' = [events EXCEPT ![f] =
                        [NoEvent EXCEPT !.status = "PENDING", !.account = found]]
      BY <1>4 DEF StoreEvent
    <3>2. QED  BY <1>1, <2>1, <3>1 DEF NoEvent, TypeOK
  <2> DEFINE n == [delivery[d] EXCEPT !.pc = "created"]
  <2>4. n.pc = "created" /\ n.event = f
    BY <1>1 DEF TypeOK, Delivery
  <2> HIDE DEF n
  <2>5. delivery' = [delivery EXCEPT ![d] = n]
    BY <2>2 DEF n
  <2> HIDE DEF f
  <2>6. ASSUME NEW e \in Events
        PROVE  Once(e)' /\ Untold(e)'
    <3>1. CASE e = f
      <4>1. events[e].attempts = 0 /\ queue[e] = 0 /\ Cardinality(Telling(e)) = 0
        BY <1>2, <1>4, <3>1 DEF Untold
      <4>2. Cardinality(Telling(e)') = 1
        <5>1. ~(delivery[d].pc = "created" /\ delivery[d].event = e)
              /\ n.pc = "created" /\ n.event = e
          BY <2>1, <2>4, <3>1
        <5>2. Cardinality(Telling(e)') = Cardinality(Telling(e)) + 1
          BY <1>1, <2>5, <5>1, TellCount
        <5>3. QED  BY <4>1, <5>2
      <4>3. QED  BY <2>2, <2>3, <3>1, <4>1, <4>2 DEF Once, Untold
    <3>2. CASE e # f
      <4>1. Cardinality(Telling(e)') = Cardinality(Telling(e))
        BY <1>1, <2>1, <2>4, <2>5, <3>2, TellCount DEF f
      <4>2. QED  BY <1>2, <2>2, <2>3, <3>2, <4>1 DEF Once, Untold
    <3>3. QED  BY <3>1, <3>2
  <2>7. HandedOverOnce'
    BY <2>6 DEF HandedOverOnce, Once, Telling
  <2>8. \A e \in Events : events[e].status # "none" => events'[e] = events[e]
    BY <1>4, <2>3 DEF f
  <2>9. QED  BY <1>1, <2>6, <2>7, <2>8, OthersInHand DEF HandParts
<1>5. CASE ~(StoreEvent(d) /\ events[f].status = "none")
  <2>1. /\ events' = events
        /\ \E n : /\ delivery' = [delivery EXCEPT ![d] = n]
                  /\ n.pc # "created"
                  /\ \/ queue' = queue
                     \/ /\ delivery[d].pc = "created"
                        /\ queue' = [queue EXCEPT ![f] = @ + 1]
    <3>1. CASE \E e \in Events : CheckEvent(d, e)
      BY <3>1 DEF CheckEvent
    <3>2. CASE StoreEvent(d)
      BY <1>3, <1>5, <3>2 DEF StoreEvent, Created
    <3>3. CASE SubmitEvent(d) \/ DeliveryFails(d)
      BY <1>3, <3>3 DEF SubmitEvent, DeliveryFails
    <3>4. QED  BY <3>1, <3>2, <3>3
  <2>2. PICK n : /\ delivery' = [delivery EXCEPT ![d] = n]
                 /\ n.pc # "created"
                 /\ \/ queue' = queue
                    \/ /\ delivery[d].pc = "created"
                       /\ queue' = [queue EXCEPT ![f] = @ + 1]
    BY <2>1
  <2> HIDE DEF f
  <2>3. ASSUME NEW e \in Events
        PROVE  Once(e)' /\ Untold(e)'
    <3>1. /\ Cardinality(Telling(e)') \in Nat
          /\ Cardinality(Telling(e)') = Cardinality(Telling(e))
             \/ Cardinality(Telling(e)') = Cardinality(Telling(e)) - 1
          /\ delivery[d].pc = "created" /\ e = f =>
               Cardinality(Telling(e)') = Cardinality(Telling(e)) - 1
      <4>1. ~(n.pc = "created" /\ n.event = e) /\ Cardinality(Telling(e)') \in Nat
        BY <1>1, <2>2, TellCount
      <4>2. CASE delivery[d].pc = "created" /\ delivery[d].event = e
        <5>1. Cardinality(Telling(e)') = Cardinality(Telling(e)) - 1
          BY <1>1, <2>2, <4>1, <4>2, TellCount
        <5>2. QED  BY <4>1, <5>1
      <4>3. CASE ~(delivery[d].pc = "created" /\ delivery[d].event = e)
        <5>1. (n.pc = "created" /\ n.event = e) <=> (delivery[d].pc = "created" /\ delivery[d].event = e)
          BY <4>1, <4>3
        <5>2. Cardinality(Telling(e)') = Cardinality(Telling(e))
          <6>1. TypeOK /\ delivery' = [delivery EXCEPT ![d] = n]
            BY <1>1, <2>2
          <6>2. QED  BY <5>1, <6>1, TellCount
        <5>3. QED  BY <4>1, <4>3, <5>2 DEF f
      <4>4. QED  BY <4>2, <4>3
    <3>2. /\ events[e].attempts \in Nat /\ queue[e] \in Nat
          /\ Cardinality(Telling(e)) \in Nat
      BY <1>1, Counts
    <3>3. \/ queue'[e] = queue[e]
          \/ delivery[d].pc = "created" /\ e = f /\ queue'[e] = queue[e] + 1
      BY <1>1, <2>2 DEF TypeOK
    <3>4. events'[e] = events[e]
      BY <2>1
    <3>5. Once(e)'
      <4>1. events[e].attempts + queue[e] + Cardinality(Telling(e)) <= 1
        BY <1>2 DEF Once
      <4>2. events'[e].attempts + queue'[e] + Cardinality(Telling(e)') <= 1
        BY ONLY <3>1, <3>2, <3>3, <3>4, <4>1
      <4>3. QED  BY <4>2 DEF Once
    <3>6. Untold(e)'
      <4>1. events[e].status = "none" =>
              events[e].attempts = 0 /\ queue[e] = 0 /\ Cardinality(Telling(e)) = 0
        BY <1>2 DEF Untold
      <4>2. events'[e].status = "none" =>
              events'[e].attempts = 0 /\ queue'[e] = 0 /\ Cardinality(Telling(e)') = 0
        BY ONLY <3>1, <3>2, <3>3, <3>4, <4>1
      <4>3. QED  BY <4>2 DEF Untold
    <3>7. QED  BY <3>5, <3>6
  <2>4. HandedOverOnce'
    BY <2>3 DEF HandedOverOnce, Once, Telling
  <2>5. QED  BY <1>1, <2>1, <2>3, <2>4, OthersInHand DEF HandParts
<1>6. QED  BY <1>4, <1>5

LEMMA TakeHand ==
  ASSUME HandInv, NEW w \in Workers, NEW e \in Events, TakeEvent(w, e)
  PROVE  HandParts'
<1>1. TypeOK /\ delivery' = delivery /\ queue[e] > 0 /\ ~Busy(w)
  BY DEF HandInv, TypeInv, TakeEvent, Busy
<1>2. ASSUME NEW g \in Events
      PROVE  /\ events[g].attempts \in Nat /\ queue[g] \in Nat /\ Cardinality(Telling(g)) \in Nat
             /\ Once(g) /\ Untold(g) /\ Telling(g)' = Telling(g)
  BY <1>1, Counts, OnceIsOnce DEF HandInv, HandParts, Telling
<1>3. events[e].attempts = 0 /\ events[e].status # "none"
  <2>1. events[e].attempts + queue[e] + Cardinality(Telling(e)) <= 1
    BY <1>2 DEF Once
  <2>2. /\ events[e].attempts \in Nat /\ queue[e] \in Nat /\ queue[e] > 0
        /\ Cardinality(Telling(e)) \in Nat
    BY <1>1, <1>2
  <2>3. events[e].attempts = 0
    BY ONLY <2>1, <2>2
  <2>4. QED  BY <1>1, <1>2, <2>3 DEF Untold
<1>4. queue'[e] = queue[e] - 1 /\ \A g \in Events : g # e => queue'[g] = queue[g]
  BY DEF TakeEvent, HandInv, TypeInv, TypeOK
<1>5. /\ \A g \in Events : g # e => events'[g] = events[g]
      /\ events'[e].status # "none"
      /\ \/ events'[e] = events[e] /\ worker' = worker
         \/ /\ events'[e].status = "PROCESSING" /\ events'[e].attempts = events[e].attempts + 1
            /\ events[e].status \notin {"PROCESSED", "IGNORED"}
  <2>1. CASE events[e].status \in {"PROCESSED", "IGNORED"}
    BY <1>3, <2>1 DEF TakeEvent
  <2>2. CASE events[e].status \notin {"PROCESSED", "IGNORED"}
    <3>1. events' = [events EXCEPT ![e] =
                      [events[e] EXCEPT !.status = "PROCESSING", !.attempts = @ + 1]]
      BY <2>2 DEF TakeEvent, HandInv, TypeInv, TypeOK
    <3>2. events[e] \in Event
      BY DEF HandInv, TypeInv, TypeOK
    <3>3. QED  BY <1>1, <2>2, <3>1, <3>2 DEF Event, TypeOK
  <2>3. QED  BY <2>1, <2>2
<1>6. ASSUME NEW g \in Events
      PROVE  Once(g)' /\ Untold(g)'
  <2>1. CASE g # e
    BY <1>2, <1>4, <1>5, <2>1 DEF Once, Untold
  <2>2. CASE g = e
    <3>1. events[e].attempts + queue[e] + Cardinality(Telling(e)) <= 1
      BY <1>2 DEF Once
    <3>2. /\ events'[e].attempts <= events[e].attempts + 1 /\ queue'[e] = queue[e] - 1
          /\ events'[e].attempts = 0 \/ events'[e].attempts = 1
      BY <1>3, <1>4, <1>5
    <3>3. events'[e].attempts + queue'[e] + Cardinality(Telling(e)) <= 1
      BY <1>2, <1>3, <3>1, <3>2
    <3>4. QED  BY <1>2, <1>5, <2>2, <3>3 DEF Once, Untold
  <2>3. QED  BY <2>1, <2>2
<1>7. HandedOverOnce'
  BY <1>6 DEF HandedOverOnce, Once, Telling
<1>8. InHand' /\ OneHand'
  <2>1. CASE events'[e] = events[e] /\ worker' = worker
    <3>1. \A g \in Events : events'[g] = events[g]
      BY <1>5, <2>1
    <3>2. QED  BY <2>1, <3>1, OthersInHand
  <2>2. CASE /\ events'[e].status = "PROCESSING"
             /\ events'[e].attempts = events[e].attempts + 1
             /\ events[e].status \notin {"PROCESSED", "IGNORED"}
    <3>1. PICK n \in Worker : /\ worker' = [worker EXCEPT ![w] = n] /\ WorkerOK(w, n)
                              /\ n.pc = "next" /\ n.event = e /\ n.todo = Holds[e]
      BY <2>2, TakeFields DEF HandInv
    <3>2. worker'[w] = n /\ \A v \in Workers : v # w => worker'[v] = worker[v]
      BY <1>1, <3>1, OneWorker DEF TypeOK
    <3>3. \A v \in Workers : Busy(v) => worker[v].event \in Events /\ worker[v].event # e
      BY <1>3 DEF HandInv, HandParts, InHand, TypeInv, HoldersOK, WorkerOK, Busy
    <3>4. InHand'
      BY <1>3, <1>5, <2>2, <3>1, <3>2, <3>3 DEF HandInv, HandParts, InHand, Busy
    <3>5. OneHand'
      BY <3>1, <3>2, <3>3 DEF HandInv, HandParts, OneHand, Busy
    <3>6. QED  BY <3>4, <3>5
  <2>3. QED  BY <1>5, <2>1, <2>2
<1>9. QED  BY <1>6, <1>7, <1>8 DEF HandParts

\* A worker that goes on with its event, or ends with the status it gives the event.
LEMMA WorkHand ==
  ASSUME HandInv, NEW w \in Workers, NEW n, worker' = [worker EXCEPT ![w] = n], Busy(w),
         UNCHANGED <<delivery, queue>>,
         \/ events' = events /\ (n.pc # "idle" => n.event = worker[w].event)
         \/ /\ n.pc = "idle"
            /\ \E s \in EventStatuses : events' = [events EXCEPT ![worker[w].event].status = s]
  PROVE  HandParts'
<1> DEFINE e == worker[w].event
<1>1. TypeOK /\ e \in Events
  BY DEF HandInv, TypeInv, HoldersOK, WorkerOK, Busy
<1>2. worker'[w] = n /\ \A v \in Workers : v # w => worker'[v] = worker[v]
  BY <1>1, OneWorker DEF TypeOK
<1>3. /\ \A g \in Events : events'[g].attempts = events[g].attempts
      /\ \A g \in Events : g # e => events'[g] = events[g]
      /\ events'[e].status # "none"
      /\ n.pc # "idle" => events'[e] = events[e] /\ n.event = e
  <2>1. events[e].status # "none"
    BY DEF HandInv, HandParts, InHand
  <2>2. "none" \notin EventStatuses
    BY DEF EventStatuses
  <2>3. CASE events' = events /\ (n.pc # "idle" => n.event = worker[w].event)
    BY <2>1, <2>3
  <2>4. CASE /\ n.pc = "idle"
             /\ \E s \in EventStatuses : events' = [events EXCEPT ![worker[w].event].status = s]
    <3>1. PICK s \in EventStatuses : events' = [events EXCEPT ![e] = [events[e] EXCEPT !.status = s]]
      BY <1>1, <2>4 DEF TypeOK
    <3>2. events[e] \in Event
      BY <1>1 DEF TypeOK
    <3>3. QED  BY <1>1, <2>2, <2>4, <3>1, <3>2 DEF TypeOK, Event
  <2>5. QED  BY <2>3, <2>4
<1> HIDE DEF e
<1>4. ASSUME NEW g \in Events
      PROVE  Once(g)' /\ Untold(g)'
  <2>1. Once(g) /\ Untold(g) /\ Telling(g)' = Telling(g)
    BY OnceIsOnce DEF HandInv, HandParts, Telling
  <2>2. QED  BY <1>3, <2>1 DEF Once, Untold
<1>5. HandedOverOnce'
  BY <1>4 DEF HandedOverOnce, Once, Telling
<1>6. \A v \in Workers : Busy(v)' => Busy(v)
  BY <1>2 DEF Busy
<1>7. \A v \in Workers : v # w /\ Busy(v) => worker[v].event \in Events /\ worker[v].event # e
  BY DEF HandInv, HandParts, OneHand, TypeInv, HoldersOK, WorkerOK, Busy, e
<1>8. InHand'
  <2>1. ASSUME NEW v \in Workers, Busy(v)'
        PROVE  events'[worker'[v].event].status = "PROCESSING"
               /\ events'[worker'[v].event].attempts > 0
    <3>1. events[worker[v].event].status = "PROCESSING"
          /\ events[worker[v].event].attempts > 0
      BY <1>6, <2>1 DEF HandInv, HandParts, InHand
    <3>2. CASE v = w
      BY <1>2, <1>3, <2>1, <3>1, <3>2 DEF Busy, e
    <3>3. CASE v # w
      BY <1>2, <1>3, <1>6, <1>7, <2>1, <3>1, <3>3
    <3>4. QED  BY <3>2, <3>3
  <2>2. QED  BY <2>1 DEF InHand
<1>9. OneHand'
  <2>1. \A v \in Workers : Busy(v)' => worker'[v].event = worker[v].event
    BY <1>2, <1>3 DEF Busy, e
  <2>2. QED  BY <1>6, <2>1 DEF HandInv, HandParts, OneHand
<1>10. QED  BY <1>4, <1>5, <1>8, <1>9 DEF HandParts

LEMMA StepHand ==
  ASSUME HandInv, NEW w \in Workers, Step(w)
  PROVE  HandParts'
<1>1. TypeInv /\ Free.pc = "idle"
  BY FreeFields DEF HandInv
<1>2. CASE Ignore(w) \/ Finish(w)
  BY <1>1, <1>2, WorkHand DEF Ignore, Finish, Busy, EventStatuses
<1>3. CASE Skip(w)
  <2>1. Busy(w) /\ UNCHANGED <<events, delivery, queue>>
    BY <1>3 DEF Skip, Busy
  <2>2. QED  BY <1>1, <1>3, <2>1, SkipFields, WorkHand
<1>4. CASE LookUp(w)
  <2>1. Busy(w) /\ UNCHANGED <<events, delivery, queue>>
    BY <1>4 DEF LookUp, Busy
  <2>2. PICK n : worker' = [worker EXCEPT ![w] = n] /\ n.event = worker[w].event
    BY <1>1, <1>4, LookFields
  <2>3. QED  BY <2>1, <2>2, WorkHand
<1>5. CASE Store(w)
  <2>1. Busy(w) /\ UNCHANGED <<events, delivery, queue>>
    BY <1>5 DEF Store, Busy
  <2>2. QED  BY <1>1, <1>5, <2>1, StoreFields, WorkHand
<1>6. CASE ListAnswers(w) \/ QueueJob(w) \/ ItemDone(w)
  <2>1. Busy(w) /\ UNCHANGED <<events, delivery, queue>>
    BY <1>6 DEF ListAnswers, QueueJob, ItemDone, Busy
  <2>2. PICK n : worker' = [worker EXCEPT ![w] = n] /\ n.event = worker[w].event
    <3>1. CASE ListAnswers(w) \/ QueueJob(w)
      BY <1>1, <3>1, AnswerFields
    <3>2. CASE ItemDone(w)
      BY <1>1, <3>2, DoneFields
    <3>3. QED  BY <1>6, <3>1, <3>2
  <2>3. QED  BY <2>1, <2>2, WorkHand
<1>7. CASE WorkerFails(w) \/ WorkerDies(w)
  BY <1>1, <1>7, WorkHand DEF WorkerFails, WorkerDies, Busy, EventStatuses
<1>8. QED  BY <1>2, <1>3, <1>4, <1>5, <1>6, <1>7 DEF Step

\* A step that leaves the events, the deliveries, the queue and the workers alone.
LEMMA QuietHand ==
  ASSUME HandInv, UNCHANGED <<events, delivery, queue, worker>>
  PROVE  HandParts'
  BY DEF HandInv, HandParts, HandedOverOnce, Untold, Telling, InHand, OneHand, Busy

LEMMA HandStep ==
  ASSUME HandInv, [Next]_vars
  PROVE  HandInv'
<1>1. TypeInv'
  BY TypeStep DEF HandInv
<1>2. CASE UNCHANGED vars
  BY <1>1, <1>2, QuietHand DEF vars, HandInv
<1>3. ASSUME NEW a \in Agents, CommitConversation(a) \/ \E t \in Threads : OpenConversation(a, t)
      PROVE  HandInv'
  BY <1>1, <1>3, QuietHand DEF CommitConversation, OpenConversation, HandInv
<1>4. QED
  BY <1>1, <1>2, <1>3, DeliveryHand, TakeHand, StepHand DEF Next, HandInv

(***************************************************************************)
(* A processed event is complete.                                          *)
(***************************************************************************)
CompInv == HandInv /\ CompleteParts
RowsStay == \A r \in Rows : stored[r] # Nobody => stored'[r] # Nobody

LEMMA ItemsStay ==
  ASSUME RowsStay
  PROVE  \A i : RowsOf(i) # {} => RowsOf(i)' # {}
  BY DEF RowsStay, RowsOf

\* No row of an event is undecided but the one its worker is about to decide.
LEMMA NoneUndecided ==
  ASSUME CompInv, NEW w \in Workers, Busy(w), NEW r \in Rows,
         Undecided(r), stored[r] = worker[w].event
  PROVE  worker[w].pc \in AtRow /\ r = <<worker[w].item, worker[w].owner>>
  BY DEF CompInv, CompleteParts, UndecidedInHand

LEMMA BusyEvent ==
  ASSUME CompInv, NEW w \in Workers, Busy(w)
  PROVE  /\ worker[w].event \in Events /\ worker[w] \in Worker
         /\ events[worker[w].event].status = "PROCESSING"
         /\ events[worker[w].event].attempts > 0
         /\ \A v \in Workers : v # w /\ Busy(v) => worker[v].event # worker[w].event
  BY DEF CompInv, HandInv, HandParts, InHand, OneHand, TypeInv, TypeOK, HoldersOK, WorkerOK, Busy

\* Steps of requests and agents.
LEMMA OthersComplete ==
  ASSUME CompInv, UNCHANGED <<worker, stored, settled>>,
         \A e \in Events : \/ events'[e] = events[e]
                           \/ events[e].status = "none" /\ events'[e].status # "PROCESSED"
  PROVE  CompleteParts'
<1>1. LeftBehind'
  BY DEF CompInv, CompleteParts, LeftBehind, Busy, RowsOf
<1>2. UndecidedInHand'
  <2>1. ASSUME NEW r \in Rows, Undecided(r)
        PROVE  events'[stored[r]] = events[stored[r]]
    <3>1. stored[r] \in Events /\ events[stored[r]].attempts > 0
      BY <2>1 DEF CompInv, HandInv, TypeInv, TypeOK, CompleteParts, UndecidedInHand, Undecided
    <3>2. events[stored[r]].status # "none"
      BY <3>1 DEF CompInv, HandInv, HandParts, Untold
    <3>3. QED  BY <3>1, <3>2
  <2>2. QED  BY <2>1 DEF CompInv, CompleteParts, UndecidedInHand, Undecided, Busy
<1>3. ItemsStored'
  BY DEF CompInv, CompleteParts, ItemsStored, RowsOf
<1>4. QED  BY <1>1, <1>2, <1>3 DEF CompleteParts

LEMMA DeliveryComplete ==
  ASSUME CompInv, NEW d \in Deliverers,
         \/ \E e \in Events : CheckEvent(d, e)
         \/ StoreEvent(d) \/ SubmitEvent(d) \/ DeliveryFails(d)
  PROVE  CompleteParts'
<1>1. UNCHANGED <<worker, stored, settled>>
  BY DEF CheckEvent, StoreEvent, SubmitEvent, DeliveryFails
<1>2. CASE StoreEvent(d)
  <2>1. ASSUME NEW e \in Events
        PROVE  \/ events'[e] = events[e]
               \/ events[e].status = "none" /\ events'[e].status # "PROCESSED"
    <3>1. CASE events' = events
      BY <3>1
    <3>2. CASE events' # events
      <4>1. PICK found \in BOOLEAN :
              events' = [events EXCEPT ![delivery[d].event] =
                          [NoEvent EXCEPT !.status = "PENDING", !.account = found]]
        BY <1>2, <3>2 DEF StoreEvent
      <4>2. events[delivery[d].event].status = "none"
        BY <1>2, <3>2 DEF StoreEvent
      <4>3. QED  BY <4>1, <4>2 DEF NoEvent, CompInv, HandInv, TypeInv, TypeOK
    <3>3. QED  BY <3>1, <3>2
  <2>2. QED  BY <1>1, <2>1, OthersComplete
<1>3. CASE ~StoreEvent(d)
  <2>1. events' = events
    BY <1>3 DEF CheckEvent, SubmitEvent, DeliveryFails
  <2>2. QED  BY <1>1, <2>1, OthersComplete
<1>4. QED  BY <1>2, <1>3

\* What a worker's step has to show: of the items it leaves behind, of the rows of its
\* event that are then undecided, and of the event if it is marked processed.
OnlyEvent(e) == \A g \in Events : g # e => events'[g] = events[g]
LeavesStored(n, e) ==
  n.pc # "idle" => \A i \in Holds[e] \ n.todo :
    RowsOf(i)' # {} \/ (n.pc = "looked" /\ n.item = i)
ProcessedStored(n, e) ==
  events'[e].status = "PROCESSED" => n.pc = "idle" /\ \A i \in Holds[e] : RowsOf(i)' # {}
OnlyItsRows(e) ==
  /\ \A r \in Rows : stored'[r] = stored[r] \/ stored'[r] = e
  /\ \A r \in Rows : Undecided(r)' /\ stored'[r] # e => Undecided(r)
LeavesDecided(w, n, e) ==
  \A r \in Rows : Undecided(r)' /\ stored'[r] = e =>
    /\ n.pc # "idle" => n.pc \in AtRow /\ r = <<n.item, n.owner>>
    /\ events'[e].status # "PROCESSED"
    /\ \A v \in Workers : v # w /\ Busy(v) => worker[v].event # e

LEMMA WorkComplete ==
  ASSUME CompInv, NEW w \in Workers, NEW n, worker' = [worker EXCEPT ![w] = n],
         NEW e \in Events, RowsStay,
         Busy(w) => worker[w].event = e, n.pc # "idle" => n.event = e,
         events'[e].attempts > 0,
         OnlyEvent(e), LeavesStored(n, e), ProcessedStored(n, e), OnlyItsRows(e),
         LeavesDecided(w, n, e)
  PROVE  CompleteParts'
<1> USE DEF CompInv, CompleteParts, OnlyEvent, LeavesStored, ProcessedStored, OnlyItsRows,
            LeavesDecided
<1>1. worker'[w] = n /\ \A v \in Workers : v # w => worker'[v] = worker[v]
  BY OneWorker DEF HandInv, TypeInv, TypeOK
<1>2. LeftBehind'
  <2>1. ASSUME NEW v \in Workers, Busy(v)', NEW i \in Holds[worker'[v].event] \ worker'[v].todo
        PROVE  RowsOf(i)' # {} \/ (worker'[v].pc = "looked" /\ worker'[v].item = i)
    <3>1. CASE v = w
      BY <1>1, <2>1, <3>1 DEF Busy
    <3>2. CASE v # w
      <4>1. worker'[v] = worker[v] /\ Busy(v)
        BY <1>1, <2>1, <3>2 DEF Busy
      <4>2. RowsOf(i) # {} \/ (worker[v].pc = "looked" /\ worker[v].item = i)
        BY <2>1, <4>1 DEF LeftBehind
      <4>3. QED  BY <4>1, <4>2, ItemsStay
    <3>3. QED  BY <3>1, <3>2
  <2>2. QED  BY <2>1 DEF LeftBehind
<1>3. UndecidedInHand'
  <2>1. ASSUME NEW r \in Rows, Undecided(r)'
        PROVE  /\ events'[stored'[r]].attempts > 0
               /\ events'[stored'[r]].status # "PROCESSED"
               /\ \A v \in Workers : Busy(v)' /\ worker'[v].event = stored'[r] =>
                    worker'[v].pc \in AtRow /\ r = <<worker'[v].item, worker'[v].owner>>
    <3>1. CASE stored'[r] = e
      <4>1. ASSUME NEW v \in Workers, Busy(v)', worker'[v].event = stored'[r]
            PROVE  worker'[v].pc \in AtRow /\ r = <<worker'[v].item, worker'[v].owner>>
        <5>1. CASE v = w
          BY <1>1, <2>1, <3>1, <4>1, <5>1 DEF Busy
        <5>2. CASE v # w
          BY <1>1, <2>1, <3>1, <4>1, <5>2 DEF Busy
        <5>3. QED  BY <5>1, <5>2
      <4>2. QED  BY <2>1, <3>1, <4>1
    <3>2. CASE stored'[r] # e
      <4>1. Undecided(r) /\ stored'[r] = stored[r] /\ stored[r] \in Events
        BY <2>1, <3>2 DEF HandInv, TypeInv, TypeOK, Undecided
      <4>2. events'[stored[r]] = events[stored[r]]
        BY <3>2, <4>1
      <4>3. \A v \in Workers : Busy(v)' /\ worker'[v].event = stored[r] =>
              v # w /\ worker'[v] = worker[v] /\ Busy(v)
        BY <1>1, <3>2, <4>1 DEF Busy
      <4>4. QED  BY <4>1, <4>2, <4>3 DEF UndecidedInHand
    <3>3. QED  BY <3>1, <3>2
  <2>2. QED  BY <2>1 DEF UndecidedInHand
<1>4. ItemsStored'
  BY ItemsStay DEF ItemsStored
<1>5. QED  BY <1>2, <1>3, <1>4

LEMMA TakeComplete ==
  ASSUME CompInv, NEW w \in Workers, NEW e \in Events, TakeEvent(w, e)
  PROVE  CompleteParts'
<1>1. UNCHANGED <<stored, settled>> /\ ~Busy(w)
  BY DEF TakeEvent, Busy
<1>2. CASE events[e].status \in {"PROCESSED", "IGNORED"}
  BY <1>1, <1>2, OthersComplete DEF TakeEvent
<1>3. CASE events[e].status \notin {"PROCESSED", "IGNORED"}
  <2>1. PICK n \in Worker : /\ worker' = [worker EXCEPT ![w] = n]
                            /\ n.pc = "next" /\ n.event = e /\ n.todo = Holds[e]
    BY <1>3, TakeFields DEF CompInv, HandInv
  <2>2. events[e] \in Event /\ events[e].attempts \in Nat
    BY DEF CompInv, HandInv, TypeInv, TypeOK, Event
  <2>3. /\ \A g \in Events : g # e => events'[g] = events[g]
        /\ events'[e].status = "PROCESSING" /\ events'[e].attempts = events[e].attempts + 1
    <3>1. events' = [events EXCEPT ![e] =
                      [events[e] EXCEPT !.status = "PROCESSING", !.attempts = @ + 1]]
      BY <1>3 DEF TakeEvent, CompInv, HandInv, TypeInv, TypeOK
    <3>2. QED  BY <2>2, <3>1 DEF Event, CompInv, HandInv, TypeInv, TypeOK
  <2>4. events[e].attempts = 0
    <3>1. events[e].attempts + queue[e] + Cardinality(Telling(e)) <= 1
      BY OnceIsOnce DEF CompInv, HandInv, HandParts, Once
    <3>2. queue[e] \in Nat /\ queue[e] > 0 /\ Cardinality(Telling(e)) \in Nat
      BY Counts DEF TakeEvent, CompInv, HandInv, TypeInv
    <3>3. QED  BY ONLY <2>2, <3>1, <3>2
  <2>5. \A r \in Rows : Undecided(r) => stored[r] # e
    BY <2>4 DEF CompInv, CompleteParts, UndecidedInHand
  <2>6. RowsStay /\ \A r \in Rows : Undecided(r)' <=> Undecided(r)
    BY <1>1 DEF RowsStay, Undecided
  <2>7. events'[e].attempts > 0
    BY <2>3, <2>4
  <2>8. /\ OnlyEvent(e) /\ LeavesStored(n, e) /\ ProcessedStored(n, e) /\ OnlyItsRows(e)
        /\ LeavesDecided(w, n, e)
    BY <1>1, <2>1, <2>3, <2>5, <2>6
       DEF OnlyEvent, LeavesStored, ProcessedStored, OnlyItsRows, LeavesDecided
  <2>9. QED  BY <1>1, <2>1, <2>6, <2>7, <2>8, WorkComplete
<1>4. QED  BY <1>2, <1>3

\* A worker that goes on to another item, having stored those it leaves behind.
LEMMA GoOnComplete ==
  ASSUME CompInv, NEW w \in Workers, worker[w].pc = "next" \/ worker[w].pc = "queueing",
         NEW n, worker' = [worker EXCEPT ![w] = n], n.event = worker[w].event,
         n.pc \in {"next", "looked"}, UNCHANGED <<events, stored>>,
         \A r \in settled : r \in settled',
         worker[w].pc = "queueing" => <<worker[w].item, worker[w].owner>> \in settled',
         \A i \in Holds[n.event] \ n.todo :
           \/ i \in Holds[worker[w].event] \ worker[w].todo
           \/ RowsOf(i) # {}
           \/ n.pc = "looked" /\ n.item = i
  PROVE  CompleteParts'
<1> DEFINE e == worker[w].event
<1>1. /\ Busy(w) /\ e \in Events /\ events[e].status = "PROCESSING" /\ events[e].attempts > 0
      /\ worker[w].pc # "looked"
  BY BusyEvent DEF Busy
<1>2. \A i \in Holds[e] \ worker[w].todo : RowsOf(i) # {}
  BY <1>1 DEF CompInv, CompleteParts, LeftBehind
<1>3. \A i : RowsOf(i)' = RowsOf(i)
  BY DEF RowsOf
<1>4. /\ RowsStay
      /\ \A r \in Rows : Undecided(r)' => Undecided(r) /\ stored'[r] # e
  <2>1. ASSUME NEW r \in Rows, Undecided(r)', stored[r] = e
        PROVE  FALSE
    <3>1. Undecided(r)
      BY <2>1 DEF Undecided
    <3>2. worker[w].pc \in AtRow /\ r = <<worker[w].item, worker[w].owner>>
      BY <1>1, <2>1, <3>1, NoneUndecided
    <3>3. QED  BY <2>1, <3>2 DEF Undecided, AtRow
  <2>2. QED  BY <2>1 DEF RowsStay, Undecided
<1>5. \A i \in Holds[e] \ n.todo : RowsOf(i)' # {} \/ (n.pc = "looked" /\ n.item = i)
  BY <1>2, <1>3
<1>6. n.event = e /\ events' = events /\ stored' = stored
  OBVIOUS
<1> HIDE DEF e
<1>7. /\ OnlyEvent(e) /\ LeavesStored(n, e) /\ ProcessedStored(n, e) /\ OnlyItsRows(e)
      /\ LeavesDecided(w, n, e)
  BY <1>1, <1>4, <1>5, <1>6
     DEF OnlyEvent, LeavesStored, ProcessedStored, OnlyItsRows, LeavesDecided
<1>8. QED  BY <1>1, <1>4, <1>6, <1>7, WorkComplete DEF e

\* A worker that ends, with the status its event then has.
LEMMA EndComplete ==
  ASSUME CompInv, NEW w \in Workers, Busy(w), worker' = [worker EXCEPT ![w] = Free],
         UNCHANGED <<stored, settled>>,
         \/ events' = events
         \/ \E s \in EventStatuses :
              /\ events' = [events EXCEPT ![worker[w].event].status = s]
              /\ s = "PROCESSED" =>
                   worker[w].pc = "next" /\ \A i \in Holds[worker[w].event] : RowsOf(i) # {}
  PROVE  CompleteParts'
<1> DEFINE e == worker[w].event
<1>1. /\ e \in Events /\ events[e].status = "PROCESSING" /\ events[e].attempts > 0
      /\ \A v \in Workers : v # w /\ Busy(v) => worker[v].event # e
  BY BusyEvent
<1>2. /\ \A g \in Events : g # e => events'[g] = events[g]
      /\ events'[e].attempts > 0
      /\ events'[e].status = "PROCESSED" =>
           worker[w].pc = "next" /\ \A i \in Holds[e] : RowsOf(i) # {}
  <2>1. CASE events' = events
    BY <1>1, <2>1
  <2>2. CASE events' # events
    <3>1. PICK s \in EventStatuses :
            /\ events' = [events EXCEPT ![e] = [events[e] EXCEPT !.status = s]]
            /\ s = "PROCESSED" =>
                 worker[w].pc = "next" /\ \A i \in Holds[e] : RowsOf(i) # {}
      BY <2>2, <1>1 DEF CompInv, HandInv, TypeInv, TypeOK
    <3>2. events[e] \in Event /\ events \in [Events -> Event]
      BY <1>1 DEF CompInv, HandInv, TypeInv, TypeOK
    <3>3. events'[e].status = s /\ events'[e].attempts = events[e].attempts
      BY <1>1, <3>1, <3>2 DEF Event
    <3>4. QED  BY <1>1, <3>1, <3>2, <3>3
  <2>3. QED  BY <2>1, <2>2
<1>3. /\ RowsStay /\ \A r \in Rows : Undecided(r)' <=> Undecided(r)
      /\ \A i : RowsOf(i)' = RowsOf(i)
  BY DEF RowsStay, Undecided, RowsOf
<1>4. \A r \in Rows : Undecided(r)' /\ stored'[r] = e => events'[e].status # "PROCESSED"
  BY <1>2, <1>3, NoneUndecided DEF AtRow
<1>5. Free.pc = "idle"
  BY FreeFields
<1>6. worker[w].event = e
  OBVIOUS
<1> HIDE DEF e
<1>7. /\ OnlyEvent(e) /\ LeavesStored(Free, e) /\ ProcessedStored(Free, e) /\ OnlyItsRows(e)
      /\ LeavesDecided(w, Free, e)
  BY <1>1, <1>2, <1>3, <1>4, <1>5
     DEF OnlyEvent, LeavesStored, ProcessedStored, OnlyItsRows, LeavesDecided
<1>8. QED  BY <1>1, <1>2, <1>3, <1>5, <1>6, <1>7, WorkComplete

LEMMA StoreComplete ==
  ASSUME CompInv, NEW w \in Workers, Store(w)
  PROVE  CompleteParts'
<1> DEFINE e == worker[w].event
           r == <<worker[w].item, worker[w].owner>>
<1>1. /\ worker[w].pc = "looked" /\ Busy(w) /\ r \in Rows /\ worker[w].item \in Items
      /\ stored' = [stored EXCEPT ![r] = e] /\ UNCHANGED <<events, settled>>
  BY StoreFields DEF Store, Busy, CompInv, HandInv
<1>2. /\ e \in Events /\ events[e].status = "PROCESSING" /\ events[e].attempts > 0
      /\ \A v \in Workers : v # w /\ Busy(v) => worker[v].event # e
  BY <1>1, BusyEvent
<1>3. PICK n \in Worker :
        /\ worker' = [worker EXCEPT ![w] = n]
        /\ n.pc = "stored" /\ n.event = worker[w].event /\ n.todo = worker[w].todo
        /\ n.item = worker[w].item /\ n.owner = worker[w].owner
  BY StoreFields DEF CompInv, HandInv
<1>4. e # Nobody /\ r[1] = worker[w].item
  BY <1>2, ItemKinds
<1>5. /\ stored'[r] = e /\ \A x \in Rows : x # r => stored'[x] = stored[x]
      /\ RowsStay
  BY <1>1, <1>4 DEF CompInv, HandInv, TypeInv, TypeOK, RowsStay
<1>6. ASSUME NEW i, i = worker[w].item PROVE RowsOf(i)' # {}
  <2>1. stored'[r] # Nobody /\ r \in Rows /\ r[1] = i
    BY <1>1, <1>4, <1>5, <1>6
  <2> HIDE DEF r
  <2>2. QED  BY <2>1 DEF RowsOf
<1>7. ASSUME NEW i \in Holds[e] \ n.todo PROVE RowsOf(i)' # {}
  <2>1. RowsOf(i) # {} \/ worker[w].item = i
    BY <1>1, <1>3, <1>7 DEF CompInv, CompleteParts, LeftBehind
  <2>2. CASE RowsOf(i) # {}
    BY <1>5, <2>2, ItemsStay
  <2>3. CASE worker[w].item = i
    BY <1>6, <2>3
  <2>4. QED  BY <2>1, <2>2, <2>3
<1>8. ASSUME NEW x \in Rows, Undecided(x)', x # r
      PROVE  Undecided(x) /\ stored'[x] # e
  <2>1. Undecided(x) /\ stored'[x] = stored[x]
    BY <1>1, <1>5, <1>8 DEF Undecided
  <2>2. QED  BY <1>1, <2>1, NoneUndecided DEF AtRow
<1> HIDE DEF e
<1>9. \A x \in Rows : stored'[x] = stored[x] \/ stored'[x] = e
  BY <1>5
<1>10. \A x \in Rows : Undecided(x)' /\ stored'[x] # e => Undecided(x)
  BY <1>5, <1>8
<1>11. \A x \in Rows : Undecided(x)' /\ stored'[x] = e => x = <<n.item, n.owner>>
  BY <1>3, <1>8
<1>12. events' = events /\ n.event = e /\ worker[w].event = e
  BY <1>1, <1>3 DEF e
<1> HIDE DEF r
<1>13. OnlyEvent(e) /\ LeavesStored(n, e) /\ ProcessedStored(n, e)
  BY <1>2, <1>7, <1>12 DEF OnlyEvent, LeavesStored, ProcessedStored
<1>14. OnlyItsRows(e)
  BY <1>9, <1>10 DEF OnlyItsRows
<1>15. LeavesDecided(w, n, e)
  BY <1>2, <1>3, <1>11, <1>12 DEF LeavesDecided, AtRow
<1>16. QED
  BY <1>2, <1>3, <1>5, <1>12, <1>13, <1>14, <1>15, WorkComplete

\* A worker that stays at its item's row.
LEMMA StayComplete ==
  ASSUME CompInv, NEW w \in Workers, ListAnswers(w) \/ QueueJob(w)
  PROVE  CompleteParts'
<1> DEFINE e == worker[w].event
<1>1. PICK n \in Worker :
        /\ worker' = [worker EXCEPT ![w] = n]
        /\ n.pc = "queueing" /\ n.event = worker[w].event /\ n.todo = worker[w].todo
        /\ n.item = worker[w].item /\ n.owner = worker[w].owner
  BY AnswerFields DEF CompInv, HandInv
<1>2. Busy(w) /\ worker[w].pc \in AtRow /\ UNCHANGED <<events, stored, settled>>
  BY AnswerFields DEF ListAnswers, QueueJob, Busy, AtRow, CompInv, HandInv
<1>3. /\ e \in Events /\ events[e].status = "PROCESSING" /\ events[e].attempts > 0
      /\ \A v \in Workers : v # w /\ Busy(v) => worker[v].event # e
  BY <1>2, BusyEvent
<1>4. \A i \in Holds[e] \ worker[w].todo : RowsOf(i) # {}
  BY <1>2 DEF CompInv, CompleteParts, LeftBehind, AtRow
<1>5. /\ RowsStay /\ \A r \in Rows : Undecided(r)' <=> Undecided(r)
      /\ \A i : RowsOf(i)' = RowsOf(i)
  BY <1>2 DEF RowsStay, Undecided, RowsOf
<1>6. \A r \in Rows : Undecided(r)' /\ stored'[r] = e => r = <<n.item, n.owner>>
  BY <1>1, <1>2, <1>5, NoneUndecided
<1>7. worker[w].event = e /\ n.event = e /\ n.pc \in AtRow /\ n.pc # "idle"
  BY <1>1 DEF AtRow
<1> HIDE DEF e
<1>8. OnlyEvent(e) /\ LeavesStored(n, e) /\ ProcessedStored(n, e) /\ OnlyItsRows(e)
  BY <1>1, <1>2, <1>3, <1>4, <1>5, <1>7
     DEF OnlyEvent, LeavesStored, ProcessedStored, OnlyItsRows
<1>9. LeavesDecided(w, n, e)
  BY <1>2, <1>3, <1>6, <1>7 DEF LeavesDecided
<1>10. QED  BY <1>1, <1>2, <1>3, <1>5, <1>7, <1>8, <1>9, WorkComplete

LEMMA StepComplete ==
  ASSUME CompInv, NEW w \in Workers, Step(w)
  PROVE  CompleteParts'
<1>1. TypeInv
  BY DEF CompInv, HandInv
<1>2. CASE Ignore(w)
  BY <1>2, EndComplete DEF Ignore, Busy, EventStatuses
<1>3. CASE Finish(w)
  <2>1. /\ worker[w].pc = "next" /\ Busy(w) /\ worker[w].todo = {}
        /\ UNCHANGED <<stored, settled>> /\ worker' = [worker EXCEPT ![w] = Free]
        /\ events' = [events EXCEPT ![worker[w].event].status = "PROCESSED"]
    BY <1>3 DEF Finish, AllHandled, Busy
  <2>2. \A i \in Holds[worker[w].event] : RowsOf(i) # {}
    BY <2>1 DEF CompInv, CompleteParts, LeftBehind
  <2>3. QED  BY <2>1, <2>2, EndComplete DEF EventStatuses
<1>4. CASE Skip(w)
  <2>1. PICK i \in worker[w].todo, n \in Worker :
          /\ worker' = [worker EXCEPT ![w] = n] /\ Known(i)
          /\ n.pc = "next" /\ n.event = worker[w].event /\ n.todo = worker[w].todo \ {i}
    BY <1>1, <1>4, SkipFields
  <2>2. worker[w].pc = "next" /\ UNCHANGED <<events, stored, settled>> /\ RowsOf(i) # {}
    BY <1>4, <2>1 DEF Skip, Known
  <2>3. \A j \in Holds[n.event] \ n.todo :
          j \in Holds[worker[w].event] \ worker[w].todo \/ RowsOf(j) # {}
    BY <2>1, <2>2
  <2>4. QED  BY <2>1, <2>2, <2>3, GoOnComplete
<1>5. CASE LookUp(w)
  <2>1. PICK i \in worker[w].todo, n \in Worker :
          /\ worker' = [worker EXCEPT ![w] = n] /\ WorkerOK(w, n) /\ ~Known(i)
          /\ n.pc = "looked" /\ n.event = worker[w].event /\ n.todo = worker[w].todo \ {i}
          /\ n.item = i
          /\ i \in Messages =>
               /\ n.thread \in IF Open # {} THEN Open ELSE {w}
               /\ n.seen = conversation[n.thread]
    BY <1>1, <1>5, LookFields
  <2>2. worker[w].pc = "next" /\ UNCHANGED <<events, stored, settled>>
    BY <1>5 DEF LookUp
  <2>3. \A j \in Holds[n.event] \ n.todo :
          j \in Holds[worker[w].event] \ worker[w].todo \/ (n.pc = "looked" /\ n.item = j)
    BY <2>1
  <2>4. QED  BY <2>1, <2>2, <2>3, GoOnComplete
<1>6. CASE ItemDone(w)
  <2>1. PICK n \in Worker :
          /\ worker' = [worker EXCEPT ![w] = n]
          /\ n.pc = "next" /\ n.event = worker[w].event /\ n.todo = worker[w].todo
    BY <1>1, <1>6, DoneFields
  <2>2. /\ worker[w].pc = "queueing" /\ UNCHANGED <<events, stored>>
        /\ settled' = settled \cup {<<worker[w].item, worker[w].owner>>}
    BY <1>6 DEF ItemDone
  <2>3. QED  BY <2>1, <2>2, GoOnComplete
<1>7. CASE WorkerFails(w)
  BY <1>7, EndComplete DEF WorkerFails, Busy, EventStatuses
<1>8. CASE WorkerDies(w)
  BY <1>8, EndComplete DEF WorkerDies, Busy
<1>9. QED
  BY <1>2, <1>3, <1>4, <1>5, <1>6, <1>7, <1>8, StoreComplete, StayComplete DEF Step

LEMMA CompStep ==
  ASSUME CompInv, [Next]_vars
  PROVE  CompInv'
<1>1. HandInv'
  BY HandStep DEF CompInv
<1>2. CASE UNCHANGED vars
  BY <1>1, <1>2, OthersComplete DEF vars, CompInv
<1>3. ASSUME NEW a \in Agents, CommitConversation(a) \/ \E t \in Threads : OpenConversation(a, t)
      PROVE  CompInv'
  BY <1>1, <1>3, OthersComplete DEF CommitConversation, OpenConversation, CompInv
<1>4. QED
  BY <1>1, <1>2, <1>3, DeliveryComplete, TakeComplete, StepComplete DEF Next, CompInv

(***************************************************************************)
(* A message is answered for one row.                                      *)
(***************************************************************************)
AnswerInv == TypeInv /\ AnswerParts

LEMMA OnceFromParts == AnswerInv => AnsweredOnce
<1> SUFFICES ASSUME AnswerInv, NEW i \in Messages \ raced, NEW x \in AnswersTo(i), NEW y \in AnswersTo(i)
             PROVE  x[1] = y[1] /\ (x[2] = DefaultReply => y[2] = DefaultReply)
  BY DEF AnsweredOnce
<1>1. /\ x[1] \in Rows /\ x[1][1] = i /\ x[2] \in jobs[x[1]]
      /\ y[1] \in Rows /\ y[1][1] = i /\ y[2] \in jobs[y[1]]
  BY DEF AnswersTo
<1>2. x[1] \in RowsOf(i) /\ y[1] \in RowsOf(i)
  BY <1>1 DEF AnswerInv, AnswerParts, JobsStored, RowsOf
<1>3. x[1] = y[1]
  BY <1>2 DEF AnswerInv, AnswerParts, OneRow
<1>4. Exclusive(jobs[x[1]])
  BY <1>1 DEF AnswerInv, AnswerParts, OneKind
<1>5. QED  BY <1>1, <1>3, <1>4 DEF Exclusive

\* Steps that leave every worker out of an item, or where it was.
LEMMA IdleAnswers ==
  ASSUME AnswerInv, UNCHANGED <<stored, jobs, raced>>,
         \A w \in Workers : worker'[w] = worker[w] \/ worker'[w].pc \in {"idle", "next"}
  PROVE  AnswerParts'
<1> USE DEF AnswerInv, AnswerParts
<1>1. \A i : RowsOf(i)' = RowsOf(i)
  BY DEF RowsOf
<1>2. OneRow' /\ JobsStored' /\ OneKind'
  BY <1>1 DEF OneRow, JobsStored, OneKind
<1>3. ASSUME NEW w \in Workers, worker'[w].pc \in {"looked"} \cup AtRow
      PROVE  worker'[w] = worker[w]
  BY <1>3 DEF AtRow
<1>4. LookedFirst'
  BY <1>1, <1>3 DEF LookedFirst
<1>5. RowInHand'
  BY <1>3 DEF RowInHand
<1>6. Unanswered'
  BY <1>3 DEF Unanswered, Handling
<1>7. QED  BY <1>2, <1>4, <1>5, <1>6

LEMMA LookAnswers ==
  ASSUME AnswerInv, NEW w \in Workers, LookUp(w)
  PROVE  AnswerParts'
<1> USE DEF AnswerInv, AnswerParts
<1>1. PICK i \in worker[w].todo, n \in Worker :
        /\ worker' = [worker EXCEPT ![w] = n] /\ WorkerOK(w, n) /\ ~Known(i)
        /\ n.pc = "looked" /\ n.event = worker[w].event /\ n.todo = worker[w].todo \ {i}
        /\ n.item = i
        /\ i \in Messages =>
             /\ n.thread \in IF Open # {} THEN Open ELSE {w}
             /\ n.seen = conversation[n.thread]
  BY LookFields
<1>2. worker'[w] = n /\ \A v \in Workers : v # w => worker'[v] = worker[v]
  BY <1>1, OneWorker DEF TypeInv, TypeOK
<1>3. UNCHANGED <<stored, jobs, raced>> /\ \A j : RowsOf(j)' = RowsOf(j)
  BY DEF LookUp, RowsOf
<1>4. ASSUME i \in Messages
      PROVE  RowsOf(i) = {} /\ stored[<<i, w>>] = Nobody /\ jobs[<<i, w>>] = {}
  <2>1. <<i, w>> \in Rows /\ <<i, w>>[1] = i
    BY <1>4, RowParts DEF Items
  <2>2. RowsOf(i) = {}
    BY <1>1, <1>4 DEF Known
  <2>3. stored[<<i, w>>] = Nobody
    BY <2>1, <2>2 DEF RowsOf
  <2>4. QED  BY <2>1, <2>2, <2>3 DEF JobsStored
<1>5. OneRow' /\ JobsStored' /\ OneKind'
  BY <1>3 DEF OneRow, JobsStored, OneKind
<1>6. RowInHand'
  BY <1>1, <1>2, <1>3 DEF RowInHand, AtRow
<1>7. LookedFirst'
  <2>1. ASSUME NEW v \in Workers, worker'[v].pc = "looked", worker'[v].item \in Messages \ raced
        PROVE  RowsOf(worker'[v].item) = {}
    <3>1. CASE v = w
      BY <1>1, <1>2, <1>4, <2>1, <3>1
    <3>2. CASE v # w
      BY <1>2, <2>1, <3>2 DEF LookedFirst
    <3>3. QED  BY <3>1, <3>2
  <2>2. QED  BY <1>3, <2>1 DEF LookedFirst
<1>8. Unanswered'
  <2>1. ASSUME NEW v \in Workers, Handling(v)', worker'[v].item \in Messages
        PROVE  /\ worker'[v].pc = "looked" => stored'[<<worker'[v].item, v>>] = Nobody
               /\ worker'[v].pc # "queueing" => jobs'[<<worker'[v].item, v>>] = {}
               /\ worker'[v].pc = "queueing" =>
                    Exclusive(jobs'[<<worker'[v].item, v>>] \cup worker'[v].answers)
    <3>1. CASE v = w
      BY <1>1, <1>2, <1>3, <1>4, <2>1, <3>1
    <3>2. CASE v # w
      BY <1>2, <1>3, <2>1, <3>2 DEF Unanswered, Handling
    <3>3. QED  BY <3>1, <3>2
  <2>2. QED  BY <2>1 DEF Unanswered, Exclusive
<1>9. QED  BY <1>5, <1>6, <1>7, <1>8

LEMMA StoreAnswers ==
  ASSUME AnswerInv, NEW w \in Workers, Store(w)
  PROVE  AnswerParts'
<1> USE DEF AnswerInv, AnswerParts
<1> DEFINE m == worker[w].item
           o == worker[w].owner
<1>1. /\ worker[w].pc = "looked" /\ Handling(w) /\ m \in Items /\ <<m, o>> \in Rows
      /\ worker[w].event \in Events /\ worker[w].event # Nobody
      /\ m \in Messages => o = w
      /\ stored' = [stored EXCEPT ![<<m, o>>] = worker[w].event] /\ jobs' = jobs
  <2>1. worker[w].pc = "looked" /\ Handling(w)
    BY DEF Store, Handling
  <2>2. /\ m \in Items /\ <<m, o>> \in Rows /\ worker[w].event \in Events
        /\ m \in Messages => o = w
    BY <2>1, HandlingFields
  <2>3. worker[w].event # Nobody
    BY <2>2, ItemKinds
  <2>4. stored' = [stored EXCEPT ![<<m, o>>] = worker[w].event] /\ jobs' = jobs
    BY DEF Store
  <2>5. QED  BY <2>1, <2>2, <2>3, <2>4
<1>2. PICK n \in Worker :
        /\ worker' = [worker EXCEPT ![w] = n]
        /\ n.pc = "stored" /\ n.item = m /\ n.owner = o
  BY StoreFields
<1>3. worker'[w] = n /\ \A v \in Workers : v # w => worker'[v] = worker[v]
  BY <1>2, OneWorker DEF TypeInv, TypeOK
<1>4. /\ stored'[<<m, o>>] # Nobody
      /\ \A x \in Rows : x # <<m, o>> => stored'[x] = stored[x]
  BY <1>1 DEF TypeInv, TypeOK
<1>5. JobsStored' /\ OneKind'
  BY <1>1, <1>4 DEF JobsStored, OneKind
<1>6. /\ raced \subseteq raced'
      /\ \A v \in Workers : v # w /\ worker[v].pc = "looked" /\ worker[v].item = m => m \in raced'
  BY DEF Store
<1>7. /\ \A i : i # m => RowsOf(i)' = RowsOf(i)
      /\ \A i : \A x \in RowsOf(i)' : x = <<m, o>> \/ x \in RowsOf(i)
  <2> DEFINE r == <<m, o>>
  <2>1. r \in Rows /\ r[1] = m
    BY <1>1, RowParts
  <2>2. \A x \in Rows : x # r => stored'[x] = stored[x]
    BY <1>4
  <2> HIDE DEF m, o, r
  <2>3. ASSUME NEW i, i # m PROVE RowsOf(i)' = RowsOf(i)
    BY <2>1, <2>2, <2>3 DEF RowsOf
  <2>4. ASSUME NEW i, NEW x \in RowsOf(i)' PROVE x = r \/ x \in RowsOf(i)
    BY <2>1, <2>2, <2>4 DEF RowsOf
  <2>5. QED  BY <2>3, <2>4 DEF r
<1>8. m \in Messages \ raced => RowsOf(m) = {}
  BY <1>1 DEF LookedFirst
<1>9. OneRow'
  <2>1. ASSUME NEW i \in Messages \ raced', NEW r \in RowsOf(i)', NEW x \in RowsOf(i)'
        PROVE  r = x
    <3>1. CASE i = m
      BY <1>6, <1>7, <1>8, <2>1, <3>1
    <3>2. CASE i # m
      BY <1>6, <1>7, <2>1, <3>2 DEF OneRow
    <3>3. QED  BY <3>1, <3>2
  <2>2. QED  BY <2>1 DEF OneRow
<1>10. LookedFirst'
  <2>1. ASSUME NEW v \in Workers, worker'[v].pc = "looked", worker'[v].item \in Messages \ raced'
        PROVE  RowsOf(worker[v].item)' = {}
    <3>1. v # w /\ worker'[v] = worker[v]
      BY <1>2, <1>3, <2>1
    <3>2. worker[v].item # m
      BY <1>6, <2>1, <3>1
    <3>3. RowsOf(worker[v].item) = {}
      BY <1>6, <2>1, <3>1 DEF LookedFirst
    <3>4. QED  BY <1>7, <3>1, <3>2, <3>3 DEF RowsOf
  <2>2. QED  BY <2>1 DEF LookedFirst
<1>11. RowInHand'
  <2>1. ASSUME NEW v \in Workers, worker'[v].pc \in AtRow
        PROVE  stored'[<<worker'[v].item, worker'[v].owner>>] # Nobody
    <3>1. CASE v = w
      BY <1>2, <1>3, <1>4, <3>1
    <3>2. CASE v # w
      <4>1. worker'[v] = worker[v] /\ Handling(v)
        BY <1>3, <2>1, <3>2 DEF Handling
      <4>2. /\ <<worker[v].item, worker[v].owner>> \in Rows
            /\ stored[<<worker[v].item, worker[v].owner>>] # Nobody
        BY <2>1, <4>1, HandlingFields DEF RowInHand
      <4>3. QED  BY <1>4, <4>1, <4>2
    <3>3. QED  BY <3>1, <3>2
  <2>2. QED  BY <2>1 DEF RowInHand
<1>12. Unanswered'
  <2>1. ASSUME NEW v \in Workers, Handling(v)', worker'[v].item \in Messages
        PROVE  /\ worker'[v].pc = "looked" => stored'[<<worker'[v].item, v>>] = Nobody
               /\ worker'[v].pc # "queueing" => jobs'[<<worker'[v].item, v>>] = {}
               /\ worker'[v].pc = "queueing" =>
                    Exclusive(jobs'[<<worker'[v].item, v>>] \cup worker'[v].answers)
    <3>1. CASE v = w
      BY <1>1, <1>2, <1>3, <2>1, <3>1 DEF Unanswered, Handling
    <3>2. CASE v # w
      <4>1. worker'[v] = worker[v] /\ Handling(v)
        BY <1>3, <2>1, <3>2 DEF Handling
      <4>2. <<worker[v].item, v>> \in Rows
        BY <2>1, <4>1, RowParts DEF Items
      <4>3. <<worker[v].item, v>> # <<m, o>>
        BY <1>1, <2>1, <3>2, <4>1
      <4>4. QED  BY <1>1, <1>4, <2>1, <4>1, <4>2, <4>3 DEF Unanswered
    <3>3. QED  BY <3>1, <3>2
  <2>2. QED  BY <2>1 DEF Unanswered, Exclusive
<1>13. QED  BY <1>5, <1>9, <1>10, <1>11, <1>12

\* A list and each of its jobs: what the row has and what is still to come is what one
\* list called for.
LEMMA QueueAnswers ==
  ASSUME AnswerInv, NEW w \in Workers, ListAnswers(w) \/ QueueJob(w)
  PROVE  AnswerParts'
<1> USE DEF AnswerInv, AnswerParts
<1> DEFINE m == worker[w].item
           o == worker[w].owner
           row == <<m, o>>
<1>1. /\ worker[w].pc \in AtRow /\ Handling(w) /\ m \in Items /\ row \in Rows
      /\ m \in Messages => o = w
      /\ UNCHANGED <<stored, raced>>
  BY AnswerFields, HandlingFields DEF ListAnswers, QueueJob
<1>2. PICK n \in Worker :
        /\ worker' = [worker EXCEPT ![w] = n]
        /\ n.pc = "queueing" /\ n.item = m /\ n.owner = o
        /\ ListAnswers(w) => worker[w].pc = "stored" /\ Exclusive(n.answers)
        /\ QueueJob(w) => \E k \in worker[w].answers :
             /\ n.answers = worker[w].answers \ {k} /\ k \in Answers
             /\ jobs' = [jobs EXCEPT ![row] = @ \cup {k}]
  BY AnswerFields
<1>3. worker'[w] = n /\ \A v \in Workers : v # w => worker'[v] = worker[v]
  BY <1>2, OneWorker DEF TypeInv, TypeOK
<1>4. \A x \in Rows : x # row => jobs'[x] = jobs[x]
  BY <1>2 DEF ListAnswers, TypeInv, TypeOK
<1>5. stored[row] # Nobody
  BY <1>1 DEF RowInHand
<1>6. m \in Messages => Exclusive(jobs'[row] \cup n.answers)
  <2> SUFFICES ASSUME m \in Messages PROVE Exclusive(jobs'[row] \cup n.answers)
    OBVIOUS
  <2>1. /\ worker[w].pc # "queueing" => jobs[row] = {}
        /\ worker[w].pc = "queueing" => Exclusive(jobs[row] \cup worker[w].answers)
    BY <1>1 DEF Unanswered
  <2>2. CASE ListAnswers(w)
    <3>1. jobs'[row] = {}
      BY <1>2, <2>1, <2>2 DEF ListAnswers
    <3>2. jobs'[row] \cup n.answers = n.answers
      BY <3>1
    <3>3. QED  BY <1>2, <2>2, <3>2
  <2>3. CASE QueueJob(w)
    <3>1. PICK k \in worker[w].answers :
            n.answers = worker[w].answers \ {k} /\ jobs' = [jobs EXCEPT ![row] = @ \cup {k}]
      BY <1>2, <2>3
    <3>2. jobs'[row] = jobs[row] \cup {k}
      BY <1>1, <3>1 DEF TypeInv, TypeOK
    <3>3. jobs'[row] \cup n.answers = jobs[row] \cup worker[w].answers
      BY <3>1, <3>2
    <3>4. worker[w].pc = "queueing"
      BY <2>3 DEF QueueJob
    <3>5. QED  BY <2>1, <3>3, <3>4
  <2>4. QED  BY <2>2, <2>3
<1> HIDE DEF row
<1>7. JobsStored'
  BY <1>1, <1>4, <1>5 DEF JobsStored
<1>8. \A i : RowsOf(i)' = RowsOf(i)
  BY <1>1 DEF RowsOf
<1>9. OneRow'
  BY <1>1, <1>8 DEF OneRow
<1>10. LookedFirst'
  <2>1. ASSUME NEW v \in Workers, worker'[v].pc = "looked"
        PROVE  worker'[v] = worker[v]
    BY <1>2, <1>3, <2>1
  <2>2. QED  BY <1>1, <1>8, <2>1 DEF LookedFirst
<1>11. RowInHand'
  BY <1>1, <1>2, <1>3, <1>5 DEF RowInHand, row
<1>12. Unanswered'
  <2>1. ASSUME NEW v \in Workers, Handling(v)', worker'[v].item \in Messages
        PROVE  /\ worker'[v].pc = "looked" => stored'[<<worker'[v].item, v>>] = Nobody
               /\ worker'[v].pc # "queueing" => jobs'[<<worker'[v].item, v>>] = {}
               /\ worker'[v].pc = "queueing" =>
                    Exclusive(jobs'[<<worker'[v].item, v>>] \cup worker'[v].answers)
    <3>1. CASE v = w
      <4>1. worker'[v] = n /\ n.pc = "queueing" /\ n.item = m /\ m \in Messages
        BY <1>2, <1>3, <2>1, <3>1
      <4>2. <<m, v>> = row
        BY <1>1, <3>1, <4>1 DEF row
      <4>3. QED  BY <1>6, <4>1, <4>2
    <3>2. CASE v # w
      <4>1. worker'[v] = worker[v] /\ Handling(v)
        BY <1>3, <2>1, <3>2 DEF Handling
      <4>2. <<worker[v].item, v>> \in Rows
        BY <2>1, <4>1, RowParts DEF Items
      <4>3. <<worker[v].item, v>> # row
        BY <1>1, <2>1, <3>2, <4>1 DEF row
      <4>4. jobs'[<<worker[v].item, v>>] = jobs[<<worker[v].item, v>>]
        BY <1>4, <4>2, <4>3
      <4>5. QED  BY <1>1, <2>1, <4>1, <4>4 DEF Unanswered
    <3>3. QED  BY <3>1, <3>2
  <2>2. QED  BY <2>1 DEF Unanswered, Exclusive
<1>13. OneKind'
  <2>1. ASSUME NEW x \in Rows, x[1] \in Messages PROVE Exclusive(jobs'[x])
    <3>1. CASE x = row
      <4>1. m \in Messages
        BY <2>1, <3>1, RowParts DEF row
      <4>2. QED  BY <1>6, <3>1, <4>1 DEF Exclusive
    <3>2. CASE x # row
      BY <1>4, <2>1, <3>2 DEF OneKind
    <3>3. QED  BY <3>1, <3>2
  <2>2. QED  BY <2>1 DEF OneKind, Exclusive
<1>14. QED  BY <1>7, <1>9, <1>10, <1>11, <1>12, <1>13

\* The steps after which the worker that takes them is at no item.
LEMMA Aside ==
  ASSUME TypeInv, NEW w \in Workers,
         \/ \E e \in Events : TakeEvent(w, e)
         \/ Ignore(w) \/ Skip(w) \/ ItemDone(w) \/ Finish(w) \/ WorkerFails(w) \/ WorkerDies(w)
  PROVE  /\ UNCHANGED <<stored, thread, jobs, touched, raced>>
         /\ \A v \in Workers : worker'[v] = worker[v] \/ worker'[v].pc \in {"idle", "next"}
<1>1. UNCHANGED <<stored, thread, jobs, touched, raced>>
  BY DEF TakeEvent, Ignore, Skip, ItemDone, Finish, WorkerFails, WorkerDies
<1>2. worker' = worker \/ \E n : worker' = [worker EXCEPT ![w] = n] /\ n.pc \in {"idle", "next"}
  <2>1. CASE \E e \in Events : TakeEvent(w, e)
    <3>1. PICK e \in Events : TakeEvent(w, e)
      BY <2>1
    <3>2. CASE worker' = worker
      BY <3>2
    <3>3. CASE worker' # worker
      <4>1. events[e].status \notin {"PROCESSED", "IGNORED"}
        BY <3>1, <3>3 DEF TakeEvent
      <4>2. QED  BY <3>1, <4>1, TakeFields
    <3>4. QED  BY <3>2, <3>3
  <2>2. CASE Skip(w) \/ ItemDone(w)
    BY <2>2, SkipFields, DoneFields
  <2>3. CASE Ignore(w) \/ Finish(w) \/ WorkerFails(w) \/ WorkerDies(w)
    BY <2>3, FreeFields DEF Ignore, Finish, WorkerFails, WorkerDies
  <2>4. QED  BY <2>1, <2>2, <2>3
<1>3. QED  BY <1>1, <1>2, OneWorker DEF TypeInv, TypeOK

LEMMA AnswerStep ==
  ASSUME AnswerInv, [Next]_vars
  PROVE  AnswerInv'
<1>1. SUFFICES AnswerParts'
  BY TypeStep DEF AnswerInv
<1>2. ASSUME UNCHANGED <<worker, stored, jobs, raced>>
      PROVE  AnswerParts'
  BY <1>2, IdleAnswers
<1>3. CASE UNCHANGED vars
  BY <1>2, <1>3 DEF vars
<1>4. ASSUME NEW a \in Agents, CommitConversation(a) \/ \E t \in Threads : OpenConversation(a, t)
      PROVE  AnswerParts'
  BY <1>2, <1>4 DEF CommitConversation, OpenConversation
<1>5. ASSUME NEW d \in Deliverers,
             \/ \E e \in Events : CheckEvent(d, e)
             \/ StoreEvent(d) \/ SubmitEvent(d) \/ DeliveryFails(d)
      PROVE  AnswerParts'
  BY <1>2, <1>5 DEF CheckEvent, StoreEvent, SubmitEvent, DeliveryFails
<1>6. ASSUME NEW w \in Workers, Step(w) \/ \E e \in Events : TakeEvent(w, e)
      PROVE  AnswerParts'
  <2>1. CASE LookUp(w) \/ Store(w) \/ ListAnswers(w) \/ QueueJob(w)
    BY <2>1, LookAnswers, StoreAnswers, QueueAnswers
  <2>2. CASE ~(LookUp(w) \/ Store(w) \/ ListAnswers(w) \/ QueueJob(w))
    BY <1>6, <2>2, Aside, IdleAnswers DEF Step, AnswerInv
  <2>3. QED  BY <2>1, <2>2
<1>7. CASE Next
  BY <1>4, <1>5, <1>6, <1>7 DEF Next
<1>8. QED  BY <1>3, <1>7

(***************************************************************************)
(* Abuse stays escalated.                                                  *)
(***************************************************************************)
EscInv == TypeInv /\ EscalateParts

\* What a step may do to the conversations: one that no agent has written does not
\* disappear, and one of them that is escalated stays so.
Preserved ==
  /\ touched \subseteq touched' /\ ConversationsStay
  /\ \A t \in Threads \ touched' :
       /\ conversation'[t] \in {"none", "OPEN", "ESCALATED"}
       /\ conversation[t] = "ESCALATED" => conversation'[t] = "ESCALATED"

\* What Placed and AbuseEscalates say of one row.
RowOK(r) ==
  stored[r] # Nobody /\ r[1] \in Messages =>
    /\ thread[r] \in Threads /\ conversation[thread[r]] # "none"
    /\ <<stored[r], r[1]>> \in Abusive =>
         conversation[thread[r]] = "ESCALATED" \/ thread[r] \in touched

LEMMA RowByRow == (Placed /\ AbuseEscalates) <=> \A r \in Rows : RowOK(r)
  BY DEF Placed, AbuseEscalates, RowOK

LEMMA PreservedRow ==
  ASSUME EscInv, Preserved, NEW r \in Rows, stored'[r] = stored[r], thread'[r] = thread[r]
  PROVE  RowOK(r)'
<1>1. RowOK(r)
  BY RowByRow DEF EscInv, EscalateParts
<1>2. QED  BY <1>1 DEF RowOK, Preserved, ConversationsStay

LEMMA PreservedSeen ==
  ASSUME EscInv, Preserved, NEW v \in Workers,
         worker'[v] = worker[v] \/ worker'[v].pc # "looked",
         conversation[v] = "none" => conversation'[v] = "none"
  PROVE  SeenOK(v, worker[v])'
<1>1. CASE worker'[v].pc # "looked"
  BY <1>1 DEF SeenOK
<1>2. CASE worker'[v] = worker[v] /\ worker[v].pc = "looked" /\ worker[v].item \in Messages
  <2>1. SeenOK(v, worker[v])
    BY DEF EscInv, EscalateParts, Seen
  <2>2. worker[v].thread \in Threads
    BY <1>2, RowParts DEF EscInv, TypeInv, HoldersOK, WorkerOK, Items
  <2>3. QED  BY <1>2, <2>1, <2>2 DEF SeenOK, Preserved, ConversationsStay
<1>3. CASE worker'[v] = worker[v] /\ worker[v].item \notin Messages
  BY <1>3 DEF SeenOK
<1>4. QED  BY <1>1, <1>2, <1>3

LEMMA PreservedUntouched ==
  ASSUME Preserved
  PROVE  Untouched'
  BY DEF Preserved, Untouched

LEMMA Settle ==
  ASSUME Preserved, \A r \in Rows : RowOK(r)', \A w \in Workers : SeenOK(w, worker[w])'
  PROVE  EscalateParts'
<1>1. Placed' /\ AbuseEscalates'
  BY DEF Placed, AbuseEscalates, RowOK
<1>2. QED  BY <1>1, PreservedUntouched DEF EscalateParts, Seen

\* Steps that write neither rows nor conversations.
LEMMA QuietEscalates ==
  ASSUME EscInv, UNCHANGED <<stored, thread, conversation, touched>>,
         \A w \in Workers : worker'[w] = worker[w] \/ worker'[w].pc # "looked"
  PROVE  EscalateParts'
<1>1. Preserved
  BY DEF Preserved, ConversationsStay, EscInv, EscalateParts, Untouched
<1>2. \A r \in Rows : RowOK(r)'
  BY <1>1, PreservedRow
<1>3. \A w \in Workers : SeenOK(w, worker[w])'
  BY <1>1, PreservedSeen
<1>4. QED  BY <1>1, <1>2, <1>3, Settle

LEMMA LookEscalates ==
  ASSUME EscInv, NEW w \in Workers, LookUp(w)
  PROVE  EscalateParts'
<1>1. PICK i \in worker[w].todo, n \in Worker :
        /\ worker' = [worker EXCEPT ![w] = n] /\ WorkerOK(w, n) /\ ~Known(i)
        /\ n.pc = "looked" /\ n.event = worker[w].event /\ n.todo = worker[w].todo \ {i}
        /\ n.item = i
        /\ i \in Messages =>
             /\ n.thread \in IF Open # {} THEN Open ELSE {w}
             /\ n.seen = conversation[n.thread]
  BY LookFields DEF EscInv
<1>2. worker'[w] = n /\ \A v \in Workers : v # w => worker'[v] = worker[v]
  BY <1>1, OneWorker DEF EscInv, TypeInv, TypeOK
<1>3. UNCHANGED <<stored, thread, conversation, touched>>
  BY DEF LookUp
<1>4. Preserved
  BY <1>3 DEF Preserved, ConversationsStay, EscInv, EscalateParts, Untouched
<1>5. \A r \in Rows : RowOK(r)'
  BY <1>3, <1>4, PreservedRow
<1>6. ASSUME n.item \in Messages
      PROVE  SeenOK(w, n)
  <2>1. /\ n.thread \in IF Open # {} THEN Open ELSE {w}
        /\ n.seen = conversation[n.thread] /\ n.thread \in Threads
    BY <1>1, <1>6, ItemKinds DEF Open
  <2>2. n.seen = "none" => n.thread = w
    BY <2>1 DEF Open
  <2>3. n.thread \notin touched => n.seen \in {"none", "OPEN", "ESCALATED"}
    BY <2>1 DEF EscInv, EscalateParts, Untouched
  <2>4. QED  BY <2>1, <2>2, <2>3 DEF SeenOK
<1>7. SeenOK(w, worker[w])'
  BY <1>2, <1>3, <1>6 DEF SeenOK
<1>8. \A v \in Workers : SeenOK(v, worker[v])'
  BY <1>2, <1>3, <1>4, <1>7, PreservedSeen
<1>9. QED  BY <1>4, <1>5, <1>8, Settle

\* The conversation of a message, when its row is stored.
LEMMA StoreConversation ==
  ASSUME EscInv, NEW w \in Workers, Store(w), worker[w].item \in Messages
  PROVE  LET t == worker[w].thread IN
         /\ t \in Threads /\ conversation'[t] # "none"
         /\ \A u \in Threads : u # t => conversation'[u] = conversation[u]
         /\ conversation[t] = "none" => t = w
         /\ t \notin touched =>
              /\ conversation'[t] \in {"OPEN", "ESCALATED"}
              /\ conversation[t] = "ESCALATED" => conversation'[t] = "ESCALATED"
              /\ <<worker[w].event, worker[w].item>> \in Abusive =>
                   conversation'[t] = "ESCALATED"
<1> DEFINE t == worker[w].thread
           s == worker[w].seen
           abusive == <<worker[w].event, worker[w].item>> \in Abusive
           new == Received(s, abusive)
           was == conversation[t]
           left == Written(new, s, was)
<1>1. /\ worker[w] \in Worker /\ worker[w].pc = "looked" /\ WorkerOK(w, worker[w])
      /\ SeenOK(w, worker[w])
  BY DEF Store, EscInv, TypeInv, TypeOK, HoldersOK, EscalateParts, Seen
<1>2. t \in Threads
  BY <1>1 DEF WorkerOK
<1>3. /\ s = "none" => t = w /\ was = "none"
      /\ s # "none" => was # "none"
      /\ t \notin touched => s \in {"none", "OPEN", "ESCALATED"}
      /\ t \notin touched /\ s = "ESCALATED" => was = "ESCALATED"
  BY <1>1 DEF SeenOK
<1>4. t \notin touched => was \in {"none", "OPEN", "ESCALATED"}
  BY <1>2 DEF EscInv, EscalateParts, Untouched
<1>5. conversation' = [conversation EXCEPT ![t] = left]
  BY DEF Store, EscInv, TypeInv, TypeOK
<1>6. conversation'[t] = left /\ \A u \in Threads : u # t => conversation'[u] = conversation[u]
  BY <1>2, <1>5 DEF EscInv, TypeInv, TypeOK
<1>7. s \in ConversationStatuses \cup {"none"} /\ "none" \notin ConversationStatuses
  BY <1>1 DEF Worker, ConversationStatuses
<1> HIDE DEF was, s, t, abusive
<1>8. new # "none"
  BY <1>7, ReceivedStatus
<1>9. left # "none"
  BY <1>3, <1>8 DEF Written
<1>10. ASSUME t \notin touched
       PROVE  /\ left \in {"OPEN", "ESCALATED"}
              /\ was = "ESCALATED" => left = "ESCALATED"
              /\ abusive => left = "ESCALATED"
  <2>1. CASE abusive
    BY <1>3, <1>10, <2>1 DEF Received, Written
  <2>2. CASE ~abusive /\ s = "none"
    BY <1>3, <2>2 DEF Received, Written
  <2>3. CASE ~abusive /\ s # "none"
    <3>1. new = s /\ left = was
      BY <1>3, <1>10, <2>3 DEF Received, Written
    <3>2. QED  BY <1>3, <1>4, <1>10, <2>3, <3>1
  <2>4. QED  BY <2>1, <2>2, <2>3
<1>11. QED  BY <1>2, <1>3, <1>6, <1>9, <1>10 DEF was, s, t, abusive

LEMMA StoreEscalates ==
  ASSUME EscInv, NEW w \in Workers, Store(w)
  PROVE  EscalateParts'
<1> DEFINE m == worker[w].item
           x == <<m, worker[w].owner>>
           t == worker[w].thread
<1>1. m \in Items /\ x \in Rows /\ worker[w].event \in Events /\ touched' = touched
  BY StoreFields DEF Store, EscInv
<1>2. PICK n \in Worker : worker' = [worker EXCEPT ![w] = n] /\ n.pc = "stored"
  BY StoreFields DEF EscInv
<1>3. worker'[w].pc # "looked" /\ \A v \in Workers : v # w => worker'[v] = worker[v]
  BY <1>2, OneWorker DEF EscInv, TypeInv, TypeOK
<1>4. ConversationsStay
  BY StoreType DEF EscInv
<1>5. /\ stored'[x] = worker[w].event /\ thread'[x] = t
      /\ \A r \in Rows : r # x => stored'[r] = stored[r] /\ thread'[r] = thread[r]
  BY <1>1 DEF Store, EscInv, TypeInv, TypeOK
<1>6. x[1] = m
  BY RowParts
<1>7. CASE m \in Messages
  <2>1. /\ t \in Threads /\ conversation'[t] # "none"
        /\ \A u \in Threads : u # t => conversation'[u] = conversation[u]
        /\ conversation[t] = "none" => t = w
        /\ t \notin touched =>
             /\ conversation'[t] \in {"OPEN", "ESCALATED"}
             /\ conversation[t] = "ESCALATED" => conversation'[t] = "ESCALATED"
             /\ <<worker[w].event, m>> \in Abusive => conversation'[t] = "ESCALATED"
    BY <1>7, StoreConversation
  <2>2. Preserved
    BY <1>1, <1>4, <2>1 DEF Preserved, EscInv, EscalateParts, Untouched
  <2>3. \A v \in Workers : v # w /\ conversation[v] = "none" => conversation'[v] = "none"
    BY <2>1, ItemKinds
  <2>4. \A v \in Workers : v # w => SeenOK(v, worker[v])'
    BY <1>3, <2>2, <2>3, PreservedSeen
  <2>5. SeenOK(w, worker[w])'
    BY <1>3 DEF SeenOK
  <2>6. \A r \in Rows : r # x => RowOK(r)'
    BY <1>5, <2>2, PreservedRow
  <2>7. ASSUME NEW r \in Rows, r = x
        PROVE  RowOK(r)'
    <3>1. stored'[r] = worker[w].event /\ r[1] = m
      BY <1>5, <1>6, <2>7
    <3>2. thread'[r] = t /\ touched' = touched
      BY <1>1, <1>5, <2>7
    <3> HIDE DEF x, t, m
    <3>3. QED  BY <2>1, <3>1, <3>2 DEF RowOK
  <2>8. \A r \in Rows : RowOK(r)'
    BY <2>6, <2>7
  <2>9. \A v \in Workers : SeenOK(v, worker[v])'
    BY <2>4, <2>5
  <2>10. QED  BY <2>2, <2>8, <2>9, Settle
<1>8. CASE m \notin Messages
  <2>1. conversation' = conversation
    BY <1>8 DEF Store
  <2>2. Preserved
    BY <1>1, <2>1 DEF Preserved, ConversationsStay, EscInv, EscalateParts, Untouched
  <2>3. \A v \in Workers : SeenOK(v, worker[v])'
    BY <1>3, <2>1, <2>2, PreservedSeen
  <2>4. \A r \in Rows : r # x => RowOK(r)'
    BY <1>5, <2>2, PreservedRow
  <2>5. ASSUME NEW r \in Rows, r = x
        PROVE  RowOK(r)'
    BY <1>6, <1>8, <2>5 DEF RowOK
  <2>6. \A r \in Rows : RowOK(r)'
    BY <2>4, <2>5
  <2>7. QED  BY <2>2, <2>3, <2>6, Settle
<1>9. QED  BY <1>7, <1>8

\* A failure may leave the conversation its worker was about to create.
LEMMA FailEscalates ==
  ASSUME EscInv, NEW w \in Workers, WorkerFails(w)
  PROVE  EscalateParts'
<1> DEFINE t == worker[w].thread
<1>1. /\ UNCHANGED <<stored, thread, touched>> /\ worker' = [worker EXCEPT ![w] = Free]
      /\ ConversationsStay
  BY FailType DEF WorkerFails, EscInv
<1>2. worker'[w].pc # "looked" /\ \A v \in Workers : v # w => worker'[v] = worker[v]
  BY <1>1, OneWorker, FreeFields DEF EscInv, TypeInv, TypeOK
<1>3. CASE conversation' = conversation
  BY <1>1, <1>2, <1>3, QuietEscalates
<1>4. CASE conversation' # conversation
  <2>1. /\ worker[w].pc = "looked" /\ worker[w].seen = "none" /\ t # Nobody
        /\ \E fresh \in {"none", "OPEN"} :
             conversation' = [conversation EXCEPT ![t] = Written(fresh, "none", @)]
    BY <1>4 DEF WorkerFails
  <2>2. worker[w].item \in Messages /\ t \in Threads
    BY <2>1, ItemKinds DEF EscInv, TypeInv, HoldersOK, WorkerOK
  <2>3. t = w /\ conversation[t] = "none"
    BY <2>1, <2>2 DEF EscInv, EscalateParts, Seen, SeenOK
  <2>4. /\ conversation'[t] \in {"none", "OPEN"}
        /\ \A u \in Threads : u # t => conversation'[u] = conversation[u]
    BY <2>1, <2>2, <2>3 DEF Written, EscInv, TypeInv, TypeOK
  <2>5. Preserved
    BY <1>1, <2>3, <2>4 DEF Preserved, EscInv, EscalateParts, Untouched
  <2>6. \A v \in Workers : v # w /\ conversation[v] = "none" => conversation'[v] = "none"
    BY <2>3, <2>4, ItemKinds
  <2>7. \A v \in Workers : v # w => SeenOK(v, worker[v])'
    BY <1>2, <2>5, <2>6, PreservedSeen
  <2>8. SeenOK(w, worker[w])'
    BY <1>2 DEF SeenOK
  <2>9. \A v \in Workers : SeenOK(v, worker[v])'
    BY <2>7, <2>8
  <2>10. \A r \in Rows : RowOK(r)'
    BY <1>1, <2>5, PreservedRow
  <2>11. QED  BY <2>5, <2>9, <2>10, Settle
<1>5. QED  BY <1>3, <1>4

LEMMA CommitEscalates ==
  ASSUME EscInv, NEW a \in Agents, CommitConversation(a)
  PROVE  EscalateParts'
<1> DEFINE t == agent[a].thread
<1>1. t \in Threads /\ conversation[t] # "none"
  BY DEF CommitConversation, EscInv, TypeInv, HoldersOK, AgentOK
<1>2. /\ UNCHANGED <<worker, stored, thread>> /\ touched' = touched \cup {t}
      /\ \A u \in Threads : u # t => conversation'[u] = conversation[u]
  BY <1>1 DEF CommitConversation, EscInv, TypeInv, TypeOK
<1>3. conversation'[t] # "none"
  <2>1. PICK new \in ConversationStatuses :
          conversation' = [conversation EXCEPT ![t] = Written(new, agent[a].seen, @)]
    BY WebhookAssumption DEF CommitConversation
  <2>2. new # "none"
    BY DEF ConversationStatuses
  <2>3. QED  BY <1>1, <2>1, <2>2 DEF Written, EscInv, TypeInv, TypeOK
<1>4. Preserved
  BY <1>1, <1>2, <1>3 DEF Preserved, ConversationsStay, EscInv, EscalateParts, Untouched
<1>5. \A v \in Workers : conversation[v] = "none" => conversation'[v] = "none"
  BY <1>1, <1>2, ItemKinds
<1>6. \A v \in Workers : SeenOK(v, worker[v])'
  BY <1>2, <1>4, <1>5, PreservedSeen
<1>7. \A r \in Rows : RowOK(r)'
  BY <1>2, <1>4, PreservedRow
<1>8. QED  BY <1>4, <1>6, <1>7, Settle

LEMMA EscStep ==
  ASSUME EscInv, [Next]_vars
  PROVE  EscInv'
<1>1. SUFFICES EscalateParts'
  BY TypeStep DEF EscInv
<1>2. ASSUME UNCHANGED <<worker, stored, thread, conversation, touched>>
      PROVE  EscalateParts'
  BY <1>2, QuietEscalates
<1>3. CASE UNCHANGED vars
  BY <1>2, <1>3 DEF vars
<1>4. ASSUME NEW a \in Agents, NEW t \in Threads, OpenConversation(a, t)
      PROVE  EscalateParts'
  BY <1>2, <1>4 DEF OpenConversation
<1>5. ASSUME NEW d \in Deliverers,
             \/ \E e \in Events : CheckEvent(d, e)
             \/ StoreEvent(d) \/ SubmitEvent(d) \/ DeliveryFails(d)
      PROVE  EscalateParts'
  BY <1>2, <1>5 DEF CheckEvent, StoreEvent, SubmitEvent, DeliveryFails
<1>6. ASSUME NEW w \in Workers, Step(w) \/ \E e \in Events : TakeEvent(w, e)
      PROVE  EscalateParts'
  <2>1. CASE LookUp(w) \/ Store(w) \/ WorkerFails(w)
    BY <2>1, LookEscalates, StoreEscalates, FailEscalates
  <2>2. CASE ListAnswers(w) \/ QueueJob(w) \/ ItemDone(w)
    <3>1. PICK n \in Worker : worker' = [worker EXCEPT ![w] = n] /\ n.pc # "looked"
      BY <2>2, AnswerFields, DoneFields DEF EscInv
    <3>2. \A v \in Workers : worker'[v] = worker[v] \/ worker'[v].pc # "looked"
      BY <3>1, OneWorker DEF EscInv, TypeInv, TypeOK
    <3>3. UNCHANGED <<stored, thread, conversation, touched>>
      BY <2>2 DEF ListAnswers, QueueJob, ItemDone
    <3>4. QED  BY <3>2, <3>3, QuietEscalates
  <2>3. CASE \/ \E e \in Events : TakeEvent(w, e)
             \/ Ignore(w) \/ Skip(w) \/ Finish(w) \/ WorkerDies(w)
    <3>1. /\ UNCHANGED <<stored, thread, touched>>
          /\ \A v \in Workers : worker'[v] = worker[v] \/ worker'[v].pc \in {"idle", "next"}
      BY <2>3, Aside DEF EscInv
    <3>2. conversation' = conversation
      BY <2>3 DEF TakeEvent, Ignore, Skip, Finish, WorkerDies
    <3>3. QED  BY <3>1, <3>2, QuietEscalates
  <2>4. QED  BY <1>6, <2>1, <2>2, <2>3 DEF Step
<1>7. CASE Next
  BY <1>4, <1>5, <1>6, <1>7, CommitEscalates DEF Next
<1>8. QED  BY <1>3, <1>7

(***************************************************************************)
(* The theorems.                                                           *)
(***************************************************************************)
LEMMA InitAll ==
  ASSUME Init
  PROVE  TypeInv /\ HandParts /\ CompleteParts /\ AnswerParts /\ EscalateParts
<1> USE DEF Init
<1>1. \A w \in Workers : worker[w].pc = "idle"
  BY FreeFields
<1>2. \A r \in Rows : stored[r] = Nobody /\ jobs[r] = {}
  OBVIOUS
<1>3. TypeInv
  <2>1. Free \in Worker /\ NoDelivery \in Delivery /\ Away \in Agent /\ NoEvent \in Event
    BY FreeFields DEF NoDelivery, Delivery, Away, Agent, NoEvent, Event
  <2>2. TypeOK
    BY <2>1 DEF TypeOK
  <2>3. HoldersOK
    BY <1>1 DEF HoldersOK, DeliveryOK, NoDelivery, WorkerOK, AtRow, AgentOK
  <2>4. QED  BY <2>2, <2>3 DEF TypeInv
<1>4. HandParts
  <2>1. ASSUME NEW e \in Events
        PROVE  events[e].attempts = 0 /\ queue[e] = 0 /\ Cardinality(Telling(e)) = 0
    <3>1. Telling(e) = {}
      BY DEF Telling, NoDelivery
    <3>2. Cardinality(Telling(e)) = 0
      BY <3>1, FS_EmptySet
    <3>3. QED  BY <3>2 DEF NoEvent
  <2>2. HandedOverOnce
    BY <2>1, OnceIsOnce DEF Once
  <2>3. QED  BY <1>1, <2>1, <2>2 DEF HandParts, Untold, InHand, OneHand, Busy
<1>5. CompleteParts
  BY <1>1, <1>2
     DEF CompleteParts, LeftBehind, Busy, UndecidedInHand, Undecided, ItemsStored, NoEvent
<1>6. AnswerParts
  <2>1. \A i : RowsOf(i) = {}
    BY <1>2 DEF RowsOf
  <2>2. QED
    BY <1>1, <1>2, <2>1
       DEF AnswerParts, OneRow, LookedFirst, JobsStored, RowInHand, Unanswered, Handling, AtRow,
           OneKind, Exclusive
<1>7. EscalateParts
  BY <1>1, <1>2
     DEF EscalateParts, Untouched, Seen, SeenOK, Placed, AbuseEscalates
<1>8. QED  BY <1>3, <1>4, <1>5, <1>6, <1>7

\* Every reachable state has the types of TypeOK.
THEOREM TypeCorrect == Spec => []TypeOK
<1>1. Init => TypeInv
  BY InitAll
<1>2. TypeInv /\ [Next]_vars => TypeInv'
  BY TypeStep
<1>3. TypeInv => TypeOK
  BY DEF TypeInv
<1>4. QED  BY <1>1, <1>2, <1>3, PTL DEF Spec

\* ingest_event and receive_webhook: however many requests deliver an event at one time,
\* and whatever fails, its task is queued at most once and starts at most once.
THEOREM EventHandedOverOnce == Spec => []HandedOverOnce
<1>1. Init => HandInv
  BY InitAll DEF HandInv
<1>2. HandInv /\ [Next]_vars => HandInv'
  BY HandStep
<1>3. HandInv => HandedOverOnce
  BY DEF HandInv, HandParts
<1>4. QED  BY <1>1, <1>2, <1>3, PTL DEF Spec

\* process_webhook_event marks an event PROCESSED only when each of its messages and
\* comments has a row and the jobs of every row it wrote last have been decided.
THEOREM ProcessedEventsComplete == Spec => []ProcessedIsComplete
<1>1. Init => CompInv
  BY InitAll DEF CompInv, HandInv
<1>2. CompInv /\ [Next]_vars => CompInv'
  BY CompStep
<1>3. CompInv => ProcessedIsComplete
  BY ItemKinds DEF CompInv, CompleteParts, ItemsStored, UndecidedInHand, Undecided,
                   ProcessedIsComplete
<1>4. QED  BY <1>1, <1>2, <1>3, PTL DEF Spec

\* process_webhook_event: a message that several events carry, or that is delivered again
\* under other headers, is answered for one row only, by its workflows or by the default
\* reply and never by both, wherever a worker fails between two of its jobs.  Excused are
\* the messages a worker stored while another, having found none, was about to.
THEOREM MessagesAnsweredOnce == Spec => []AnsweredOnce
<1>1. Init => AnswerInv
  BY InitAll DEF AnswerInv
<1>2. AnswerInv /\ [Next]_vars => AnswerInv'
  BY AnswerStep
<1>3. AnswerInv => AnsweredOnce
  BY OnceFromParts
<1>4. QED  BY <1>1, <1>2, <1>3, PTL DEF Spec

\* A conversation with an abusive message stays ESCALATED until an agent writes it: no
\* worker that loaded it before writes an older status over it.
THEOREM AbuseStaysEscalated == Spec => []AbuseEscalates
<1>1. Init => EscInv
  BY InitAll DEF EscInv
<1>2. EscInv /\ [Next]_vars => EscInv'
  BY EscStep
<1>3. EscInv => AbuseEscalates
  BY DEF EscInv, EscalateParts
<1>4. QED  BY <1>1, <1>2, <1>3, PTL DEF Spec
================================================================================
