------------------------------ MODULE Automation ------------------------------
(***************************************************************************)
(* A scheduled automation workflow, the jobs that run it and the jobs that *)
(* answer inbound items, up to the draft or reply they generate and the    *)
(* tokens they debit.                                                      *)
(*                                                                         *)
(* Of sync_jobs a handler can tell three states of its row: not created,   *)
(* open (PENDING, RUNNING or FAILED, to be run again by the dispatcher, a  *)
(* duplicate or a retry) and done (COMPLETED).  Time advances in steps     *)
(* that no HTTP request and no scan outlasts; a job may.                   *)
(***************************************************************************)
EXTENDS Naturals

CONSTANTS
  Day,                    \* steps of a day; a workflow's local time is one of them
  Manual,                 \* manual runs a user asks for
  Items,                  \* inbound items with an AI_REPLY_GENERATION job
  Edits,                  \* update requests
  Workers,                \* job workers
  MaxTime,                \* bound: time
  MaxRuns                 \* bound: runs of jobs

Times == 1..MaxTime
Keys == Times \cup Manual \cup Items     \* a scheduled run's key is its run time

ASSUME AutomationAssumption ==
  /\ Day \in Nat \ {0} /\ MaxTime \in Nat \ {0} /\ MaxRuns \in Nat
  /\ (Times \cup {0}) \cap (Manual \cup Items) = {} /\ Manual \cap Items = {}

VARIABLES
  now,
  workflow,               \* the automation_workflows row; next = 0 and last = 0 are NULL
  job,                    \* the sync_jobs rows
  scan,                   \* the row the due scan has loaded
  edit,                   \* the row and the values of each update request
  worker,                 \* the job each worker runs and the row it loaded
  runs,                   \* runs of jobs so far
  drafts,                 \* history: drafts or replies each job stored
  mixed,                  \* history: a session stored values computed from another row
  excused                 \* history: jobs with a reason to generate again

vars == <<now, workflow, job, scan, edit, worker, runs, drafts, mixed, excused>>

Slots == 0..(Day - 1)
Workflow == [status : {"none", "ACTIVE", "PAUSED", "deleted"}, slot : Slots, next : Nat, last : Nat]
NoWorkflow == [status |-> "none", slot |-> 0, next |-> 0, last |-> 0]

\* _compute_next_run_at: the first time at the slot strictly after the reference.
NextRun(slot, ref) ==
  CHOOSE t \in (ref + 1)..(ref + Day) : t % Day = slot

Exists == workflow.status \in {"ACTIVE", "PAUSED"}
\* What a session keeps of the row to compute and compare the next run.
Timing(row) == [slot |-> row.slot, next |-> row.next]
NoTiming == Timing(NoWorkflow)

IdleScan == [pc |-> "idle", seen |-> NoTiming]
NoEdit(pc) == [pc |-> pc, seen |-> NoWorkflow, row |-> NoWorkflow]
IdleWorker == [pc |-> "idle", key |-> 0, seen |-> NoTiming]

\* A column is written when its value differs from the one the session loaded.
Assigned(new, loaded, stored) == IF new = loaded THEN stored ELSE new

\* A session whose row another has rescheduled since.
Stale(seen) == seen # Timing(workflow)

Init ==
  /\ now = 1
  /\ workflow = NoWorkflow
  /\ job = [k \in Keys |-> "none"]
  /\ scan = IdleScan
  /\ edit = [e \in Edits |-> NoEdit("new")]
  /\ worker = [w \in Workers |-> IdleWorker]
  /\ runs = 0
  /\ drafts = [k \in Keys |-> 0]
  /\ mixed = FALSE
  /\ excused = {}

(***************************************************************************)
(* Requests.                                                               *)
(***************************************************************************)
CreateWorkflow ==
  /\ workflow.status = "none"
  /\ \E status \in {"ACTIVE", "PAUSED"}, slot \in Slots :
        workflow' = [status |-> status, slot |-> slot, next |-> NextRun(slot, now), last |-> 0]
  /\ UNCHANGED <<now, job, scan, edit, worker, runs, drafts, mixed, excused>>

\* next_run_at left as it was (mutant of NextEdited).
NextEditedKept(slot) == workflow.next

\* update_workflow: next_run_at follows from last_triggered_at, if there is one.
NextEdited(slot) == NextRun(slot, IF workflow.last = 0 THEN now ELSE workflow.last)

\* The row as the request loads and changes it.
LoadEdit(e) ==
  /\ edit[e].pc = "new" /\ Exists
  /\ \E status \in {"ACTIVE", "PAUSED"}, slot \in Slots :
        edit' = [edit EXCEPT ![e] =
          [pc |-> "loaded", seen |-> workflow,
           row |-> [workflow EXCEPT !.status = status, !.slot = slot, !.next = NextEdited(slot)]]]
  /\ UNCHANGED <<now, workflow, job, scan, worker, runs, drafts, mixed, excused>>

CommitEdit(e) ==
  /\ edit[e].pc = "loaded" /\ Exists
  /\ workflow' = [c \in DOMAIN workflow |-> Assigned(edit[e].row[c], edit[e].seen[c], workflow[c])]
  /\ mixed' = (mixed \/ Stale(Timing(edit[e].seen)))
  /\ edit' = [edit EXCEPT ![e] = NoEdit("done")]
  /\ UNCHANGED <<now, job, scan, worker, runs, drafts, excused>>

\* An error, or the row has been deleted.
EditFails(e) ==
  /\ edit[e].pc = "loaded"
  /\ edit' = [edit EXCEPT ![e] = NoEdit("done")]
  /\ UNCHANGED <<now, workflow, job, scan, worker, runs, drafts, mixed, excused>>

DeleteWorkflow ==
  /\ Exists
  /\ workflow' = [NoWorkflow EXCEPT !.status = "deleted"]
  /\ UNCHANGED <<now, job, scan, edit, worker, runs, drafts, mixed, excused>>

\* create_job: the row of a key is created once.
Ensure(k) == job' = IF job[k] = "none" THEN [job EXCEPT ![k] = "open"] ELSE job

\* run_workflow_now, whatever the workflow's status; each request has a key of its own.
RunNow(k) ==
  /\ Exists /\ job[k] = "none"
  /\ Ensure(k)
  /\ UNCHANGED <<now, workflow, scan, edit, worker, runs, drafts, mixed, excused>>

\* The webhook task stores an item and creates its job.
ItemArrives(k) ==
  /\ job[k] = "none"
  /\ Ensure(k)
  /\ UNCHANGED <<now, workflow, scan, edit, worker, runs, drafts, mixed, excused>>

(***************************************************************************)
(* scan_due_automation_workflows.                                          *)
(***************************************************************************)
\* next_run_at assigned first (mutant of FirstStep).
FirstStepStore == "queued"

\* What the scan does first with a due row: create_job.
FirstStep == "loaded"

LoadDue ==
  /\ scan.pc = "idle"
  /\ workflow.status = "ACTIVE" /\ workflow.next # 0 /\ workflow.next <= now
  /\ scan' = [pc |-> FirstStep, seen |-> Timing(workflow)]
  /\ UNCHANGED <<now, workflow, job, edit, worker, runs, drafts, mixed, excused>>

\* create_job commits before next_run_at is assigned.
QueueRun ==
  /\ scan.pc = "loaded"
  /\ Ensure(scan.seen.next)
  /\ scan' = [scan EXCEPT !.pc = "queued"]
  /\ UNCHANGED <<now, workflow, edit, worker, runs, drafts, mixed, excused>>

StoreNext ==
  /\ scan.pc = "queued" /\ Exists
  /\ workflow' = [workflow EXCEPT !.next = NextRun(scan.seen.slot, scan.seen.next)]
  /\ mixed' = (mixed \/ Stale(scan.seen))
  /\ scan' = IdleScan
  /\ UNCHANGED <<now, job, edit, worker, runs, drafts, excused>>

\* The task dies, or the row has been deleted.
ScanFails ==
  /\ scan.pc # "idle"
  /\ scan' = IdleScan
  /\ UNCHANGED <<now, workflow, job, edit, worker, runs, drafts, mixed, excused>>

(***************************************************************************)
(* execute_sync_job for AUTOMATION_RULE_EXECUTION and AI_REPLY_GENERATION. *)
(***************************************************************************)
\* Any row may be run, completed ones too (mutant of Runnable).
RunnableAgain(k) == job[k] # "none"

\* The task returns when the job is completed.
Runnable(k) == job[k] = "open"

Overlap(k) == \E w \in Workers : worker[w].pc # "idle" /\ worker[w].key = k

\* A missing workflow fails the job, which stays open; one that is not active
\* completes it.
TakeJob(w, k) ==
  /\ worker[w].pc = "idle" /\ runs < MaxRuns /\ Runnable(k)
  /\ runs' = runs + 1
  /\ excused' = IF Overlap(k) THEN excused \cup {k} ELSE excused
  /\ worker' =
       IF k \in Items THEN [worker EXCEPT ![w] = [IdleWorker EXCEPT !.pc = "loaded", !.key = k]]
       ELSE IF workflow.status = "ACTIVE"
         THEN [worker EXCEPT ![w] = [pc |-> "loaded", key |-> k, seen |-> Timing(workflow)]]
       ELSE IF Exists THEN [worker EXCEPT ![w] = [IdleWorker EXCEPT !.pc = "skipped", !.key = k]]
       ELSE worker
  /\ UNCHANGED <<now, workflow, job, scan, edit, drafts, mixed>>

\* generate_post, generate_inbox_reply, generate_comment_reply: what the model wrote
\* is committed, and a reply is handed to the delivery task.
Generate(w) ==
  /\ worker[w].pc = "loaded"
  /\ drafts' = [drafts EXCEPT ![worker[w].key] = @ + 1]
  /\ worker' = [worker EXCEPT ![w].pc = "generated"]
  /\ UNCHANGED <<now, workflow, job, scan, edit, runs, mixed, excused>>

\* The loaded row is of no more use.
Ended(w, pc) == [worker EXCEPT ![w] = [IdleWorker EXCEPT !.pc = pc, !.key = worker[w].key]]

\* _record_and_debit_usage.
Debit(w) ==
  /\ worker[w].pc = "generated"
  /\ worker' = IF worker[w].key \in Items THEN Ended(w, "stored")
               ELSE [worker EXCEPT ![w].pc = "debited"]
  /\ UNCHANGED <<now, workflow, job, scan, edit, runs, drafts, mixed, excused>>

\* The end of execute_job: last_triggered_at, and next_run_at from the current time.
StoreResult(w) ==
  /\ worker[w].pc = "debited" /\ Exists
  /\ workflow' = [workflow EXCEPT
                    !.last = now,
                    !.next = Assigned(NextRun(worker[w].seen.slot, now), worker[w].seen.next, @)]
  /\ mixed' = (mixed \/ Stale(worker[w].seen))
  /\ worker' = Ended(w, "stored")
  /\ UNCHANGED <<now, job, scan, edit, runs, drafts, excused>>

\* mark_completed.
Complete(w) ==
  /\ worker[w].pc \in {"stored", "skipped"}
  /\ job' = [job EXCEPT ![worker[w].key] = "done"]
  /\ worker' = [worker EXCEPT ![w] = IdleWorker]
  /\ UNCHANGED <<now, workflow, scan, edit, runs, drafts, mixed, excused>>

\* mark_failed, which reopens a job that another run completed meanwhile.
Reopened(w) == [job EXCEPT ![worker[w].key] = "open"]

ProviderFails(w) ==
  /\ worker[w].pc = "loaded"
  /\ job' = Reopened(w)
  /\ worker' = [worker EXCEPT ![w] = IdleWorker]
  /\ UNCHANGED <<now, workflow, scan, edit, runs, drafts, mixed, excused>>

\* 409: by the time debit_tokens lists the credits, they hold less than the amount it
\* had cut down to the balance.
DebitRefused(w) ==
  /\ worker[w].pc = "generated"
  /\ job' = Reopened(w)
  /\ excused' = excused \cup {worker[w].key}
  /\ worker' = [worker EXCEPT ![w] = IdleWorker]
  /\ UNCHANGED <<now, workflow, scan, edit, runs, drafts, mixed>>

\* The process dies, or the workflow it updates has been deleted and the session
\* refuses further use.
WorkerDies(w) ==
  /\ worker[w].pc # "idle"
  /\ excused' = IF worker[w].pc \in {"generated", "debited", "stored"}
                THEN excused \cup {worker[w].key} ELSE excused
  /\ worker' = [worker EXCEPT ![w] = IdleWorker]
  /\ UNCHANGED <<now, workflow, job, scan, edit, runs, drafts, mixed>>

Tick ==
  /\ now < MaxTime
  /\ scan.pc = "idle" /\ \A e \in Edits : edit[e].pc # "loaded"
  /\ now' = now + 1
  /\ UNCHANGED <<workflow, job, scan, edit, worker, runs, drafts, mixed, excused>>

Execute(w) == Generate(w) \/ Debit(w) \/ StoreResult(w) \/ Complete(w)

Next ==
  \/ CreateWorkflow \/ DeleteWorkflow
  \/ \E e \in Edits : LoadEdit(e) \/ CommitEdit(e) \/ EditFails(e)
  \/ \E k \in Manual : RunNow(k)
  \/ \E k \in Items : ItemArrives(k)
  \/ LoadDue \/ QueueRun \/ StoreNext \/ ScanFails
  \/ \E w \in Workers : (\E k \in Keys : TakeJob(w, k)) \/ Execute(w)
                        \/ ProviderFails(w) \/ DebitRefused(w) \/ WorkerDies(w)
  \/ Tick

Spec == Init /\ [][Next]_vars

--------------------------------------------------------------------------------
(***************************************************************************)
(* Properties.                                                             *)
(***************************************************************************)
Seen == [slot : Slots, next : Nat]

TypeOK ==
  /\ now \in Nat
  /\ workflow \in Workflow
  /\ job \in [Keys -> {"none", "open", "done"}]
  /\ scan \in [pc : {"idle", "loaded", "queued"}, seen : Seen]
  /\ edit \in [Edits -> [pc : {"new", "loaded", "done"}, seen : Workflow, row : Workflow]]
  /\ worker \in [Workers -> [pc : {"idle", "loaded", "generated", "debited", "stored", "skipped"},
                              key : Keys \cup {0}, seen : Seen]]
  /\ runs \in Nat /\ drafts \in [Keys -> Nat]
  /\ mixed \in BOOLEAN
  /\ excused \subseteq Keys

\* The next run is at the workflow's own local time, whichever of creation, edit,
\* scan and execution wrote it last, unless one of them stored a time it had
\* computed from a row that another had rescheduled meanwhile.
SlotRespected == Exists /\ ~mixed => workflow.next % Day = workflow.slot

\* The scan commits a run's job and the next run time separately, and may fail in
\* between: it never moves the time past a run that has no job.
RunNotSkipped ==
  [][scan' # scan /\ workflow' # workflow => job[scan.seen.next] # "none"]_vars

\* A job generates, sends and debits a second time only if two of its runs
\* overlapped or one ended between the draft and its completion.
SecondDraftExplained == \A k \in Keys : drafts[k] > 1 => k \in excused
================================================================================
