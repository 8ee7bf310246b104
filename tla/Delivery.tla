------------------------------- MODULE Delivery -------------------------------
(***************************************************************************)
(* Outbound messages and comment replies: the request that queues one, the *)
(* deliver_* task that calls the platform and stores the outcome, and the  *)
(* retry_failed_send job a failed delivery leaves in sync_jobs.            *)
(*                                                                         *)
(* A job of SyncJobs is the retry job of the item of the same name: its    *)
(* dedupe_key is "retry-message:<id>" or "retry-comment-reply:<id>".       *)
(***************************************************************************)
EXTENDS SyncJobs, FiniteSets

CONSTANTS
  Couriers,         \* worker processes of the delivery queues
  Faults,           \* what may go wrong: "broker", "network", "crash"
  MaxMail           \* bound: messages for one item waiting in the delivery queue

ASSUME DeliveryAssumption ==
  /\ Faults \subseteq {"broker", "network", "crash"}
  /\ MaxMail \in Nat
  /\ IsFiniteSet(Workers) /\ IsFiniteSet(Couriers)

Items == Jobs

VARIABLES
  status,           \* delivery_status or reply_status; "none" before the row
  sending,          \* requests that have committed an item and not yet sent its task
  mail,             \* deliver_* messages waiting in the queue
  courier,          \* the task each delivery worker runs
  sent,             \* history: times the platform accepted the item
  dropped,          \* history: items whose task ended without storing its outcome
  shared            \* history: items two couriers have held at once

deliveryVars == <<status, sending, mail, courier, sent, dropped, shared>>
vars == <<jobVars, deliveryVars>>

Statuses2 == {"none", "QUEUED", "SENT", "FAILED"}
Courier == [pc : {"idle", "loaded", "called", "failed"}, item : Items \cup {NoId},
            seen : Statuses2, result : {"none", "SENT", "FAILED"}]
Resting == [pc |-> "idle", item |-> NoId, seen |-> "none", result |-> "none"]

Init ==
  /\ JobInit
  /\ status = [i \in Items |-> "none"]
  /\ sending = {}
  /\ mail = [i \in Items |-> 0]
  /\ courier = [c \in Couriers |-> Resting]
  /\ sent = [i \in Items |-> 0]
  /\ dropped = {}
  /\ shared = {}

Deposit(i) == mail[i] < MaxMail /\ mail' = [mail EXCEPT ![i] = @ + 1]
Rest(c) == courier' = [courier EXCEPT ![c] = Resting]

(***************************************************************************)
(* send_reply, create_reply and the AI replies: the row is committed, then *)
(* the task is sent; an exception of the broker is swallowed.              *)
(***************************************************************************)
Compose(i) ==
  /\ status[i] = "none"
  /\ status' = [status EXCEPT ![i] = "QUEUED"]
  /\ sending' = sending \cup {i}
  /\ UNCHANGED <<jobVars, mail, courier, sent, dropped, shared>>

Submit(i) ==
  /\ i \in sending
  /\ sending' = sending \ {i}
  /\ Deposit(i)
  /\ UNCHANGED <<jobVars, status, courier, sent, dropped, shared>>

\* `except Exception: pass`, or the API process dies after its commit.
SubmitFails(i) ==
  /\ i \in sending
  /\ "broker" \in Faults
  /\ sending' = sending \ {i}
  /\ UNCHANGED <<jobVars, status, mail, courier, sent, dropped, shared>>

(***************************************************************************)
(* deliver_outbound_message and deliver_comment_reply.                     *)
(***************************************************************************)
\* The task sends whatever it finds (mutant of Delivered).
NeverDelivered(s) == FALSE

Delivered(s) == s = "SENT"

PickUp(c, i) ==
  /\ courier[c].pc = "idle"
  /\ mail[i] > 0
  /\ mail' = [mail EXCEPT ![i] = @ - 1]
  /\ IF Delivered(status[i])
     THEN UNCHANGED <<courier, shared>>
     ELSE /\ courier' = [courier EXCEPT ![c] = [Resting EXCEPT !.pc = "loaded", !.item = i,
                                                               !.seen = status[i]]]
          /\ shared' = IF \E d \in Couriers : courier[d].item = i
                       THEN shared \cup {i} ELSE shared
  /\ UNCHANGED <<jobVars, status, sending, sent, dropped>>

\* The call: accepted, or refused with a platform error, which the sender turns
\* into FAILED (handle_api_error commits in between and reloads nothing).
CallPlatform(c) ==
  /\ courier[c].pc = "loaded"
  /\ \/ /\ sent' = [sent EXCEPT ![courier[c].item] = @ + 1]
        /\ courier' = [courier EXCEPT ![c].pc = "called", ![c].result = "SENT"]
     \/ /\ courier' = [courier EXCEPT ![c].pc = "called", ![c].result = "FAILED"]
        /\ UNCHANGED sent
  /\ UNCHANGED <<jobVars, status, sending, mail, dropped, shared>>

\* A task that Celery runs again after any error (mutant of CallBreaks).
CallBreaksRetried(c) ==
  /\ courier[c].pc = "loaded"
  /\ "network" \in Faults
  /\ \/ sent' = [sent EXCEPT ![courier[c].item] = @ + 1]
     \/ UNCHANGED sent
  /\ Rest(c)
  /\ Deposit(courier[c].item)
  /\ UNCHANGED <<jobVars, status, sending, dropped, shared>>

\* A timeout or transport error of httpx leaves the task, with the request
\* delivered or not; it is not one of the exceptions LoggedTask retries.
CallBreaks(c) ==
  /\ courier[c].pc = "loaded"
  /\ "network" \in Faults
  /\ \/ sent' = [sent EXCEPT ![courier[c].item] = @ + 1]
     \/ UNCHANGED sent
  /\ Rest(c)
  /\ dropped' = dropped \cup {courier[c].item}
  /\ UNCHANGED <<jobVars, status, sending, mail, shared>>

\* An outcome written whatever the session had loaded (mutant of Outcome).
OutcomeAlways(q) == q.result

\* update_delivery_status, update_reply_delivery: the column is in the UPDATE only
\* if the outcome differs from the status the task loaded.
Outcome(q) == Written(q.result, q.seen, status[q.item])

Store(c) ==
  /\ courier[c].pc = "called"
  /\ status' = [status EXCEPT ![courier[c].item] = Outcome(courier[c])]
  /\ IF courier[c].result = "FAILED"
     THEN courier' = [courier EXCEPT ![c].pc = "failed"]
     ELSE Rest(c)
  /\ UNCHANGED <<jobVars, sending, mail, sent, dropped, shared>>

\* No retry job (mutant of RetryJob).
RetryJobNever(i) == UNCHANGED jobs

\* create_job under the item's fixed key.
RetryJob(i) ==
  \/ Create(i, "due")
  \/ jobs[i].status # "none" /\ UNCHANGED jobs

ScheduleRetry(c) ==
  /\ courier[c].pc = "failed"
  /\ RetryJob(courier[c].item)
  /\ Rest(c)
  /\ UNCHANGED <<queue, batch, exec, runs, lost, overlapped, status, sending, mail, sent, dropped, shared>>

CourierDies(c) ==
  /\ courier[c].pc # "idle"
  /\ "crash" \in Faults
  /\ Rest(c)
  /\ dropped' = dropped \cup {courier[c].item}
  /\ UNCHANGED <<jobVars, status, sending, mail, sent, shared>>

(***************************************************************************)
(* _handle_retry_failed_send: the handler only sends the task again.       *)
(***************************************************************************)
HandleRetry(w) ==
  /\ Handle(w)
  /\ \/ exec'[w].pc = "returned" /\ Deposit(exec[w].job)
     \/ exec'[w].pc = "raised" /\ "broker" \in Faults /\ UNCHANGED mail
  /\ UNCHANGED <<status, sending, courier, sent, dropped, shared>>

Next ==
  \/ \E i \in Items : Compose(i) \/ Submit(i) \/ SubmitFails(i)
  \/ \E c \in Couriers :
        \/ \E i \in Items : PickUp(c, i)
        \/ CallPlatform(c) \/ CallBreaks(c) \/ Store(c) \/ ScheduleRetry(c) \/ CourierDies(c)
  \/ \E w \in Workers : HandleRetry(w)
  \/ Machinery /\ UNCHANGED deliveryVars

Spec == Init /\ [][Next]_vars

--------------------------------------------------------------------------------
(***************************************************************************)
(* Properties.                                                             *)
(***************************************************************************)

\* Types of the items, the delivery queue and the couriers.
TypeOK ==
  /\ JobTypeOK
  /\ status \in [Items -> Statuses2]
  /\ sending \subseteq Items
  /\ mail \in [Items -> Nat]
  /\ courier \in [Couriers -> Courier]
  /\ sent \in [Items -> Nat]
  /\ dropped \subseteq Items /\ shared \subseteq Items

\* A sent item stays sent: a delivery that loaded it before and failed after does
\* not turn it back, because its UPDATE leaves the unchanged status out.
SentIsFinal == [][\A i \in Items : status[i] = "SENT" => status'[i] = "SENT"]_vars

\* Every failed item has its retry job, or the courier that found the failure is
\* about to create it, or died before it did.
FailureHasRetry ==
  \A i \in Items :
    status[i] = "FAILED" =>
      \/ jobs[i].status # "none"
      \/ \E c \in Couriers : courier[c].pc = "failed" /\ courier[c].item = i
      \/ i \in dropped

\* The platform is called once for the item and at most once for each run of its
\* retry job: a failed retry does not start another.
SendsBounded == \A i \in Items : sent[i] <= 1 + runs[i]

\* A customer gets an item twice only if two couriers held it at once or one ended
\* between the call and the stored outcome.
DuplicateExplained == \A i \in Items : sent[i] > 1 => i \in shared \cup dropped
================================================================================
