------------------------------- MODULE SyncJobs -------------------------------
(***************************************************************************)
(* The sync_jobs table, the beat task that dispatches due jobs to the      *)
(* "sync" queue, and the workers that run execute_sync_job.                *)
(*                                                                         *)
(* Celery acknowledges a task when a worker takes it, so a worker that     *)
(* dies loses it.  A worker keeps the row it loaded: SQLAlchemy puts a     *)
(* column in the UPDATE only when its new value differs from the loaded    *)
(* one, and expire_on_commit=False keeps the object between commits.       *)
(***************************************************************************)
EXTENDS Naturals

CONSTANTS
  Jobs,             \* job rows, one per dedupe_key
  Workers,          \* worker processes of the "sync" queue
  MaxAttempts,      \* sync_jobs.max_attempts (5)
  MaxRetries,       \* LoggedTask.max_retries (5)
  NoId,             \* no job
  MaxQueued,        \* bound: messages for one job waiting in the queue
  MaxRuns           \* bound: handler runs of one job

ASSUME JobAssumption ==
  /\ MaxAttempts \in Nat /\ MaxRetries \in Nat /\ MaxQueued \in Nat /\ MaxRuns \in Nat
  /\ NoId \notin Jobs

Statuses == {"PENDING", "RUNNING", "COMPLETED", "FAILED", "RETRY_SCHEDULED"}
Tries == 0..MaxRetries

VARIABLES
  jobs,             \* the table; status "none" is a key with no row
  queue,            \* messages of the "sync" queue, by job and Celery retries
  batch,            \* jobs the running dispatch task has still to send
  exec,             \* the task each worker runs
  runs,             \* history: handler runs of each job
  lost,             \* history: jobs whose task a worker lost
  overlapped        \* history: jobs two workers have held at once

jobVars == <<jobs, queue, batch, exec, runs, lost, overlapped>>

\* scheduled_for and retry_after are kept relative to now.
Job == [status : Statuses \cup {"none"}, attempts : Nat,
        scheduled : {"future", "due"}, retry : {"null", "waiting", "elapsed"}]
NoJob == [status |-> "none", attempts |-> 0, scheduled |-> "due", retry |-> "null"]

Exec == [pc : {"idle", "loaded", "running", "returned", "raised"}, job : Jobs \cup {NoId}, try : Tries, row : Job]
Waiting == [pc |-> "idle", job |-> NoId, try |-> 0, row |-> NoJob]
Free(w) == exec[w].pc = "idle"

--------------------------------------------------------------------------------
JobInit ==
  /\ jobs = [j \in Jobs |-> NoJob]
  /\ queue = [j \in Jobs |-> [t \in Tries |-> 0]]
  /\ batch = {}
  /\ exec = [w \in Workers |-> Waiting]
  /\ runs = [j \in Jobs |-> 0]
  /\ lost = {}
  /\ overlapped = {}

\* create_job: a key that has a row, whatever its status, gets no other.
Create(j, when) ==
  /\ jobs[j].status = "none"
  /\ jobs' = [jobs EXCEPT ![j] = [NoJob EXCEPT !.status = "PENDING", !.scheduled = when]]

\* Time reaches scheduled_for or retry_after.
Elapse(j) ==
  /\ \/ /\ jobs[j].scheduled = "future"
        /\ jobs' = [jobs EXCEPT ![j].scheduled = "due"]
     \/ /\ jobs[j].retry = "waiting"
        /\ jobs' = [jobs EXCEPT ![j].retry = "elapsed"]
  /\ UNCHANGED <<queue, batch, exec, runs, lost, overlapped>>

\* A dispatcher that ignores retry_after, or that looks only for pending jobs
\* (mutants of Due).
DueAnyRetry(j) == jobs[j].status \in {"PENDING", "RETRY_SCHEDULED"}
DuePendingOnly(j) == jobs[j].status = "PENDING" /\ jobs[j].scheduled = "due"

Due(j) ==
  /\ jobs[j].status \in {"PENDING", "RETRY_SCHEDULED"}
  /\ jobs[j].scheduled = "due"
  /\ jobs[j].retry # "waiting"

Scan ==
  /\ batch = {}
  /\ \E j \in Jobs : Due(j)
  /\ batch' = {j \in Jobs : Due(j)}
  /\ UNCHANGED <<jobs, queue, exec, runs, lost, overlapped>>

\* execute_sync_job.delay(job.id).  The row is not marked, so the next scan
\* sends the job again if no worker has taken it.
Send(j) ==
  /\ j \in batch
  /\ queue[j][0] < MaxQueued
  /\ queue' = [queue EXCEPT ![j][0] = @ + 1]
  /\ batch' = batch \ {j}
  /\ UNCHANGED <<jobs, exec, runs, lost, overlapped>>

\* The broker refuses a message, or the dispatching worker dies.
DispatchFails ==
  /\ batch # {}
  /\ batch' = {}
  /\ UNCHANGED <<jobs, queue, exec, runs, lost, overlapped>>

\* execute_sync_job without its early return (mutant of Skipped).
NeverSkipped(row) == FALSE

Skipped(row) == row.status = "COMPLETED"

Receive(w, j) ==
  /\ Free(w)
  /\ runs[j] < MaxRuns
  /\ \E t \in Tries :
        /\ queue[j][t] > 0
        /\ queue' = [queue EXCEPT ![j][t] = @ - 1]
        /\ exec' = IF Skipped(jobs[j]) THEN exec
                   ELSE [exec EXCEPT ![w] = [pc |-> "loaded", job |-> j, try |-> t,
                                             row |-> jobs[j]]]
        /\ overlapped' = IF ~Skipped(jobs[j]) /\ (\E v \in Workers : exec[v].job = j)
                         THEN overlapped \cup {j} ELSE overlapped
  /\ UNCHANGED <<jobs, batch, runs, lost>>

\* The stored value after a session assigns `new` to an attribute it loaded as `old`.
Written(new, old, stored) == IF new = old THEN stored ELSE new

\* A mark_running that leaves the attempts alone (mutant of RunningRow).
RunningUncounted(row, stored) ==
  [stored EXCEPT !.status = Written("RUNNING", row.status, @)]

\* mark_running: attempts is assigned the loaded count plus one.
RunningRow(row, stored) ==
  [stored EXCEPT !.status = Written("RUNNING", row.status, @), !.attempts = row.attempts + 1]

MarkRunning(w) ==
  /\ exec[w].pc = "loaded"
  /\ LET j == exec[w].job
         written == RunningRow(exec[w].row, jobs[j])
     IN /\ jobs' = [jobs EXCEPT ![j] = written]
        /\ exec' = [exec EXCEPT ![w].pc = "running", ![w].row = written]   \* db.refresh
        /\ runs' = [runs EXCEPT ![j] = @ + 1]
  /\ UNCHANGED <<queue, batch, lost, overlapped>>

Idle(w) == exec' = [exec EXCEPT ![w] = Waiting]

\* _dispatch_sync_job: the job type's handler returns or raises.
Handle(w) ==
  /\ exec[w].pc = "running"
  /\ \E end \in {"returned", "raised"} : exec' = [exec EXCEPT ![w].pc = end]
  /\ UNCHANGED <<jobs, queue, batch, runs, lost, overlapped>>

CompletedRow(row, stored) ==
  [stored EXCEPT !.status = Written("COMPLETED", row.status, @),
                 !.retry = Written("null", row.retry, @)]

\* The handler returned: mark_completed.
Complete(w) ==
  /\ exec[w].pc = "returned"
  /\ jobs' = [jobs EXCEPT ![exec[w].job] = CompletedRow(exec[w].row, @)]
  /\ Idle(w)
  /\ UNCHANGED <<queue, batch, runs, lost, overlapped>>

\* A mark_failed that gives up one attempt early, or counts the attempt again (mutants
\* of FailedRow).
FailedEarly(row, stored) ==
  [stored EXCEPT !.status = IF row.attempts + 1 >= MaxAttempts THEN "FAILED" ELSE "RETRY_SCHEDULED",
                 !.retry = IF row.attempts + 1 >= MaxAttempts THEN "null" ELSE "waiting"]
FailedCounting(row, stored) ==
  [stored EXCEPT !.status = "RETRY_SCHEDULED", !.retry = "waiting", !.attempts = row.attempts + 1]

FailedRow(row, stored) ==
  IF row.attempts >= MaxAttempts
  THEN [stored EXCEPT !.status = Written("FAILED", row.status, @),
                      !.retry = Written("null", row.retry, @)]
  ELSE [stored EXCEPT !.status = Written("RETRY_SCHEDULED", row.status, @),
                      !.retry = "waiting"]

\* The handler raised: mark_failed, and the exception goes on to Celery, which
\* sends the task again when it is a ConnectionError or a TimeoutError.
Fail(w) ==
  LET j == exec[w].job
      t == exec[w].try
  IN /\ exec[w].pc = "raised"
     /\ jobs' = [jobs EXCEPT ![j] = FailedRow(exec[w].row, @)]
     /\ \/ UNCHANGED queue
        \/ /\ t < MaxRetries
           /\ queue' = [queue EXCEPT ![j][t + 1] = @ + 1]
     /\ Idle(w)
     /\ UNCHANGED <<batch, runs, lost, overlapped>>

\* The worker dies, or mark_failed raises because the session's flush failed.
Crash(w) ==
  /\ ~Free(w)
  /\ Idle(w)
  /\ lost' = lost \cup {exec[w].job}
  /\ UNCHANGED <<jobs, queue, batch, runs, overlapped>>

Finish(w) == Complete(w) \/ Fail(w)
Take(j) == \E w \in Workers : Receive(w, j)

\* Everything but the callers of create_job and the handlers.
Machinery ==
  \/ \E j \in Jobs : Elapse(j) \/ Send(j) \/ Take(j)
  \/ Scan \/ DispatchFails
  \/ \E w \in Workers : MarkRunning(w) \/ Finish(w) \/ Crash(w)

JobNext ==
  \/ \E j \in Jobs, when \in {"due", "future"} :
        Create(j, when) /\ UNCHANGED <<queue, batch, exec, runs, lost, overlapped>>
  \/ \E w \in Workers : Handle(w)
  \/ Machinery

JobSpec == JobInit /\ [][JobNext]_jobVars

\* Beat ticks every minute, the clock advances, the broker and the workers come
\* back; nothing says that they do not fail.
Fairness ==
  /\ WF_jobVars(Scan)
  /\ \A j \in Jobs : WF_jobVars(Elapse(j)) /\ SF_jobVars(Send(j)) /\ SF_jobVars(Take(j))
  /\ \A w \in Workers : WF_jobVars(MarkRunning(w)) /\ WF_jobVars(Handle(w))
                          /\ WF_jobVars(Finish(w))

FairJobSpec == JobSpec /\ Fairness

--------------------------------------------------------------------------------
(***************************************************************************)
(* Properties.                                                             *)
(***************************************************************************)

\* Types of the table, the queue and the workers.
JobTypeOK ==
  /\ jobs \in [Jobs -> Job]
  /\ queue \in [Jobs -> [Tries -> Nat]]
  /\ batch \subseteq Jobs
  /\ exec \in [Workers -> Exec]
  /\ runs \in [Jobs -> Nat]
  /\ lost \subseteq Jobs /\ overlapped \subseteq Jobs

\* attempts never counts a run that did not start, however executions overlap.
AttemptsCounted == \A j \in Jobs : jobs[j].attempts <= runs[j]

\* attempts counts every run, lost tasks, duplicates and Celery retries included, unless
\* two workers have held the job at once.
AttemptsExact == \A j \in Jobs \ overlapped : jobs[j].attempts = runs[j]

\* A job is given up only when its attempts are used up, with the same exception.
GivenUpWhenExhausted ==
  \A j \in Jobs \ overlapped : jobs[j].status = "FAILED" => jobs[j].attempts >= MaxAttempts

\* A completed job stays completed, although the dispatcher sends a job again while it
\* waits in the queue, several workers take what is sent and Celery retries failed tasks:
\* only a worker that held the job together with another brings it back.
CompletedIsFinal ==
  [][\A j \in Jobs \ overlapped :
       jobs[j].status = "COMPLETED" => jobs'[j].status = "COMPLETED"]_jobVars

\* The table as the services that create jobs see it, and what they may rely on: a
\* key has one row for ever, and its handler never runs before scheduled_for,
\* through duplicate dispatches, Celery retries and lost workers.
book == [j \in Jobs |-> IF jobs[j].status = "none" THEN "none" ELSE jobs[j].scheduled]
Book == INSTANCE JobBook
ImplementsBook == Book!BookSpec

\* A job whose task no worker loses is completed or given up.
JobsFinish ==
  \A j \in Jobs :
    jobs[j].status = "PENDING" ~> (jobs[j].status \in {"COMPLETED", "FAILED"} \/ j \in lost)
================================================================================
