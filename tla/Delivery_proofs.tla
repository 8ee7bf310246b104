---------------------------- MODULE Delivery_proofs ----------------------------
(***************************************************************************)
(* Proofs about SyncJobs and about Delivery and PostJobs, which extend it. *)
(*                                                                         *)
(* The first part is about the table of jobs, for any number of jobs and   *)
(* workers.  Its inductive invariant says of every job a worker, the queue *)
(* or the dispatcher holds that it has a row and is due, and of every row  *)
(* a worker holds that its attempts count runs that started.               *)
(*                                                                         *)
(* The second part is about the outbound items, for any number of items,   *)
(* workers and couriers: a delivery never turns a sent item back, a failed *)
(* item has its retry, sends are bounded by the runs of the retry job, and *)
(* a duplicate has one of two causes.  Every step of Delivery is a step of *)
(* SyncJobs or leaves it alone, so what the first part shows holds here.   *)
(*                                                                         *)
(* The third part is about a social post and its two jobs, for any number  *)
(* of requests, publishers and workers: over the table the post behaves as *)
(* Posts says it does over a JobBook, and a scheduled post is carried on.  *)
(***************************************************************************)
EXTENDS Delivery, PostJobs, FiniteSetTheorems, TLAPS

(***************************************************************************)
(*                              THE JOBS                                   *)
(***************************************************************************)

\* A job that has a row and whose time has come.
Known(j) == jobs[j].status # "none" /\ jobs[j].scheduled = "due"

BatchKnown == \A j \in batch : Known(j)
QueueKnown == \A j \in Jobs, t \in Tries : queue[j][t] > 0 => Known(j)
ExecKnown ==
  \A w \in Workers :
    ~Free(w) => /\ exec[w].job \in Jobs
                /\ Known(exec[w].job)
                /\ exec[w].row.attempts <= runs[exec[w].job]

IInv == JobTypeOK /\ BatchKnown /\ QueueKnown /\ ExecKnown /\ AttemptsCounted

--------------------------------------------------------------------------------
(***************************************************************************)
(* The rows the three marks write.                                         *)
(***************************************************************************)
LEMMA RunningFields ==
  ASSUME NEW row \in Job, NEW stored \in Job
  PROVE  LET r == RunningRow(row, stored)
         IN  /\ r \in Job
             /\ r.scheduled = stored.scheduled
             /\ stored.status # "none" => r.status # "none"
             /\ r.attempts = row.attempts + 1
<1> DEFINE st == Written("RUNNING", row.status, stored.status)
           at == row.attempts + 1
<1>1. /\ st \in Statuses \cup {"none"} /\ at \in Nat
      /\ stored.status # "none" => st # "none"
  BY DEF Written, Job, Statuses
<1>2. RunningRow(row, stored) = [stored EXCEPT !.status = st, !.attempts = at]
  BY DEF RunningRow, Job
<1> HIDE DEF st, at
<1> DEFINE r == [stored EXCEPT !.status = st, !.attempts = at]
<1>3. r \in Job /\ r.scheduled = stored.scheduled /\ r.status = st /\ r.attempts = at
  BY <1>1 DEF Job
<1>4. QED  BY <1>1, <1>2, <1>3 DEF at

LEMMA CompletedFields ==
  ASSUME NEW row \in Job, NEW stored \in Job
  PROVE  LET r == CompletedRow(row, stored)
         IN  /\ r \in Job
             /\ r.scheduled = stored.scheduled
             /\ stored.status # "none" => r.status # "none"
             /\ r.attempts = stored.attempts
<1> DEFINE st == Written("COMPLETED", row.status, stored.status)
           re == Written("null", row.retry, stored.retry)
<1>1. /\ st \in Statuses \cup {"none"} /\ re \in {"null", "waiting", "elapsed"}
      /\ stored.status # "none" => st # "none"
  BY DEF Written, Job, Statuses
<1>2. CompletedRow(row, stored) = [stored EXCEPT !.status = st, !.retry = re]
  BY DEF CompletedRow, Job
<1> HIDE DEF st, re
<1> DEFINE r == [stored EXCEPT !.status = st, !.retry = re]
<1>3. /\ r \in Job /\ r.scheduled = stored.scheduled /\ r.status = st
      /\ r.attempts = stored.attempts
  BY <1>1 DEF Job
<1>4. QED  BY <1>1, <1>2, <1>3

LEMMA FailedFields ==
  ASSUME NEW row \in Job, NEW stored \in Job
  PROVE  LET r == FailedRow(row, stored)
         IN  /\ r \in Job
             /\ r.scheduled = stored.scheduled
             /\ stored.status # "none" => r.status # "none"
             /\ r.attempts = stored.attempts
<1> DEFINE last == row.attempts >= MaxAttempts
           st == IF last THEN Written("FAILED", row.status, stored.status)
                 ELSE Written("RETRY_SCHEDULED", row.status, stored.status)
           re == IF last THEN Written("null", row.retry, stored.retry) ELSE "waiting"
<1>1. /\ st \in Statuses \cup {"none"} /\ re \in {"null", "waiting", "elapsed"}
      /\ stored.status # "none" => st # "none"
  BY DEF Written, Job, Statuses
<1>2. FailedRow(row, stored) = [stored EXCEPT !.status = st, !.retry = re]
  BY DEF FailedRow, Job
<1> HIDE DEF st, re
<1> DEFINE r == [stored EXCEPT !.status = st, !.retry = re]
<1>3. /\ r \in Job /\ r.scheduled = stored.scheduled /\ r.status = st
      /\ r.attempts = stored.attempts
  BY <1>1 DEF Job
<1>4. QED  BY <1>1, <1>2, <1>3

\* A write to the row of a job that is known leaves it known, and the book as it is.
LEMMA RowWrite ==
  ASSUME JobTypeOK, NEW j \in Jobs, Known(j), NEW r \in Job,
         r.scheduled = jobs[j].scheduled, r.status # "none",
         jobs' = [jobs EXCEPT ![j] = r]
  PROVE  /\ jobs' \in [Jobs -> Job]
         /\ \A k \in Jobs : Known(k) => Known(k)'
         /\ \A k \in Jobs : k # j => jobs'[k] = jobs[k]
         /\ jobs'[j] = r
         /\ book' = book
<1>1. jobs \in [Jobs -> Job]
  BY DEF JobTypeOK
<1>2. QED  BY <1>1 DEF Known, book

--------------------------------------------------------------------------------
(***************************************************************************)
(* What each step does to the table.  TableStep is all the invariant needs *)
(* to know of it.                                                          *)
(***************************************************************************)
TableStep ==
  /\ jobs' \in [Jobs -> Job]
  /\ \A j \in Jobs : Known(j) => Known(j)'

LEMMA CreateTable ==
  ASSUME JobTypeOK, NEW j \in Jobs, NEW when \in {"due", "future"}, Create(j, when)
  PROVE  TableStep /\ book' = [book EXCEPT ![j] = when] /\ book[j] = "none"
         /\ jobs'[j].attempts = 0 /\ \A k \in Jobs : k # j => jobs'[k] = jobs[k]
<1> DEFINE r == [NoJob EXCEPT !.status = "PENDING", !.scheduled = when]
<1>1. r \in Job /\ r.status = "PENDING" /\ r.scheduled = when /\ r.attempts = 0
  BY DEF NoJob, Job, Statuses
<1>2. jobs[j].status = "none" /\ jobs' = [jobs EXCEPT ![j] = r] /\ jobs \in [Jobs -> Job]
  BY DEF Create, JobTypeOK
<1> HIDE DEF r
<1>3. QED  BY <1>1, <1>2 DEF TableStep, Known, book

LEMMA ElapseTable ==
  ASSUME JobTypeOK, NEW j \in Jobs, Elapse(j)
  PROVE  /\ TableStep
         /\ \A k \in Jobs : jobs'[k].attempts = jobs[k].attempts
         /\ \/ book[j] = "future" /\ book' = [book EXCEPT ![j] = "due"]
            \/ book' = book
<1>1. jobs \in [Jobs -> Job]
  BY DEF JobTypeOK
<1>2. CASE jobs[j].scheduled = "future" /\ jobs' = [jobs EXCEPT ![j].scheduled = "due"]
  <2>1. [jobs[j] EXCEPT !.scheduled = "due"] \in Job
    BY <1>1 DEF Job
  <2>2. QED  BY <1>1, <1>2, <2>1 DEF TableStep, Known, book, Job
<1>3. CASE jobs[j].retry = "waiting" /\ jobs' = [jobs EXCEPT ![j].retry = "elapsed"]
  <2>1. [jobs[j] EXCEPT !.retry = "elapsed"] \in Job
    BY <1>1 DEF Job
  <2>2. QED  BY <1>1, <1>3, <2>1 DEF TableStep, Known, book, Job
<1>4. QED  BY <1>2, <1>3 DEF Elapse

LEMMA MarkTable ==
  ASSUME IInv, NEW w \in Workers, MarkRunning(w)
  PROVE  LET j == exec[w].job
             r == RunningRow(exec[w].row, jobs[j])
         IN  /\ TableStep /\ j \in Jobs /\ Known(j) /\ book' = book
             /\ r \in Job /\ r.attempts <= runs[j] + 1
             /\ jobs' = [jobs EXCEPT ![j] = r]
             /\ exec' = [exec EXCEPT ![w] = [exec[w] EXCEPT !.pc = "running", !.row = r]]
             /\ runs' = [runs EXCEPT ![j] = runs[j] + 1]
<1> DEFINE j == exec[w].job
           r == RunningRow(exec[w].row, jobs[j])
<1>1. exec[w] \in Exec /\ ~Free(w) /\ exec \in [Workers -> Exec]
  BY DEF IInv, JobTypeOK, MarkRunning, Free
<1>2. /\ j \in Jobs /\ Known(j) /\ exec[w].row.attempts <= runs[j] /\ exec[w].row \in Job
      /\ jobs[j] \in Job /\ runs[j] \in Nat
  BY <1>1 DEF IInv, ExecKnown, Exec, JobTypeOK
<1>3. /\ r \in Job /\ r.scheduled = jobs[j].scheduled /\ r.status # "none"
      /\ r.attempts = exec[w].row.attempts + 1
  BY <1>2, RunningFields DEF Known
<1>4. /\ jobs' = [jobs EXCEPT ![j] = r]
      /\ runs' = [runs EXCEPT ![j] = runs[j] + 1]
  BY DEF MarkRunning, IInv, JobTypeOK
<1>5. exec' = [exec EXCEPT ![w] = [exec[w] EXCEPT !.pc = "running", !.row = r]]
  BY <1>1 DEF MarkRunning, Exec
<1>6. r.attempts <= runs[j] + 1
  BY <1>2, <1>3 DEF Job
<1> HIDE DEF r
<1>7. TableStep /\ book' = book
  BY <1>2, <1>3, <1>4, RowWrite DEF IInv, TableStep
<1>8. QED  BY <1>2, <1>3, <1>4, <1>5, <1>6, <1>7 DEF r

LEMMA FinishTable ==
  ASSUME IInv, NEW w \in Workers, Finish(w)
  PROVE  /\ TableStep /\ book' = book
         /\ \A k \in Jobs : jobs'[k].attempts = jobs[k].attempts
<1> DEFINE j == exec[w].job
<1>1. exec[w] \in Exec /\ ~Free(w)
  BY DEF IInv, JobTypeOK, Finish, Complete, Fail, Free
<1>2. j \in Jobs /\ Known(j) /\ exec[w].row \in Job /\ jobs[j] \in Job
  BY <1>1 DEF IInv, ExecKnown, Exec, JobTypeOK
<1>3. PICK r \in Job :
        /\ r.scheduled = jobs[j].scheduled /\ r.status # "none"
        /\ r.attempts = jobs[j].attempts
        /\ jobs' = [jobs EXCEPT ![j] = r]
  <2>1. CASE Complete(w)
    BY <1>2, <2>1, CompletedFields DEF Complete, Known, IInv, JobTypeOK
  <2>2. CASE Fail(w)
    BY <1>2, <2>2, FailedFields DEF Fail, Known, IInv, JobTypeOK
  <2>3. QED  BY <2>1, <2>2 DEF Finish
<1>4. QED  BY <1>2, <1>3, RowWrite DEF IInv, TableStep

--------------------------------------------------------------------------------
(***************************************************************************)
(* The invariant.                                                          *)
(***************************************************************************)
LEMMA WaitingType == Waiting \in Exec /\ Waiting.pc = "idle" /\ NoJob \in Job
<1>1. NoJob \in Job
  BY DEF NoJob, Job, Statuses
<1>2. 0 \in Tries
  BY JobAssumption DEF Tries
<1>3. QED  BY <1>1, <1>2 DEF Waiting, Exec

LEMMA InitInv == JobInit => IInv
<1> SUFFICES ASSUME JobInit PROVE IInv
  OBVIOUS
<1>1. JobTypeOK
  BY WaitingType DEF JobInit, JobTypeOK
<1>2. \A w \in Workers : Free(w)
  BY WaitingType DEF JobInit, Free
<1>3. QED  BY <1>1, <1>2 DEF JobInit, IInv, BatchKnown, QueueKnown, ExecKnown, AttemptsCounted, NoJob

\* A step that leaves the queue, the dispatcher and the workers alone.
LEMMA QuietInv ==
  ASSUME IInv, TableStep, UNCHANGED <<queue, batch, exec, runs, lost, overlapped>>,
         \A k \in Jobs : jobs'[k].attempts <= runs[k]
  PROVE  IInv'
<1>1. JobTypeOK'
  BY DEF IInv, JobTypeOK, TableStep
<1>2. BatchKnown' /\ QueueKnown' /\ ExecKnown'
  BY DEF IInv, JobTypeOK, BatchKnown, QueueKnown, ExecKnown, TableStep, Free
<1>3. QED  BY <1>1, <1>2 DEF IInv, AttemptsCounted

\* A step of the machinery that leaves the table alone and takes nothing out of
\* the air: what it puts in the queue or the batch is known.
LEMMA SameTable ==
  ASSUME UNCHANGED jobs
  PROVE  \A j \in Jobs : Known(j)' <=> Known(j)
  BY DEF Known

LEMMA SendInv ==
  ASSUME IInv, NEW j \in Jobs, Send(j)
  PROVE  IInv'
<1>1. 0 \in Tries /\ queue[j][0] \in Nat /\ Known(j) /\ queue[j] \in [Tries -> Nat]
  BY JobAssumption DEF Tries, IInv, JobTypeOK, BatchKnown, Send
<1>2. /\ queue' \in [Jobs -> [Tries -> Nat]]
      /\ \A k \in Jobs, t \in Tries : queue'[k][t] = queue[k][t] \/ k = j
  BY <1>1 DEF Send, IInv, JobTypeOK
<1>3. JobTypeOK'
  BY <1>2 DEF IInv, JobTypeOK, Send
<1>4. QueueKnown'
  BY <1>1, <1>2, SameTable DEF IInv, QueueKnown, Send
<1>5. QED  BY <1>3, <1>4, SameTable DEF IInv, JobTypeOK, BatchKnown, ExecKnown, AttemptsCounted, Free, Send

LEMMA ReceiveInv ==
  ASSUME IInv, NEW w \in Workers, NEW j \in Jobs, Receive(w, j)
  PROVE  IInv'
<1>1. PICK t \in Tries :
        /\ queue[j][t] > 0
        /\ queue' = [queue EXCEPT ![j][t] = @ - 1]
        /\ exec' = IF Skipped(jobs[j]) THEN exec
                   ELSE [exec EXCEPT ![w] = [pc |-> "loaded", job |-> j, try |-> t,
                                             row |-> jobs[j]]]
  BY DEF Receive
<1>2. Known(j) /\ queue[j] \in [Tries -> Nat] /\ jobs[j] \in Job
  BY <1>1 DEF IInv, QueueKnown, JobTypeOK
<1>3. /\ queue' \in [Jobs -> [Tries -> Nat]]
      /\ \A k \in Jobs, u \in Tries : queue'[k][u] > 0 => queue[k][u] > 0
  BY <1>1, <1>2 DEF IInv, JobTypeOK
<1>4. [pc |-> "loaded", job |-> j, try |-> t, row |-> jobs[j]] \in Exec
  BY <1>2 DEF Exec
<1>5. exec' \in [Workers -> Exec]
  BY <1>1, <1>4 DEF IInv, JobTypeOK
<1>6. JobTypeOK'
  BY <1>3, <1>5 DEF IInv, JobTypeOK, Receive
<1>7. BatchKnown' /\ QueueKnown'
  BY <1>3, SameTable DEF IInv, BatchKnown, QueueKnown, JobTypeOK, Receive
<1>8. ExecKnown'
  BY <1>1, <1>2, SameTable DEF IInv, ExecKnown, AttemptsCounted, JobTypeOK, Receive, Free
<1>9. QED  BY <1>6, <1>7, <1>8 DEF IInv, AttemptsCounted, Receive

LEMMA MarkInv ==
  ASSUME IInv, NEW w \in Workers, MarkRunning(w)
  PROVE  IInv'
<1> DEFINE j == exec[w].job
           r == RunningRow(exec[w].row, jobs[j])
           q == [exec[w] EXCEPT !.pc = "running", !.row = r]
<1>1. /\ TableStep /\ j \in Jobs /\ Known(j)
      /\ r \in Job /\ r.attempts <= runs[j] + 1
      /\ jobs' = [jobs EXCEPT ![j] = r]
      /\ exec' = [exec EXCEPT ![w] = q]
      /\ runs' = [runs EXCEPT ![j] = runs[j] + 1]
  BY MarkTable
<1> HIDE DEF r
<1>2. exec[w] \in Exec
  BY DEF IInv, JobTypeOK
<1>3. q \in Exec /\ q.pc = "running" /\ q.job = j /\ q.row = r
  BY <1>1, <1>2 DEF Exec
<1> HIDE DEF q
<1>4. /\ runs' \in [Jobs -> Nat] /\ exec' \in [Workers -> Exec]
      /\ \A k \in Jobs : runs[k] <= runs'[k]
      /\ runs'[j] = runs[j] + 1
  BY <1>1, <1>3 DEF IInv, JobTypeOK
<1>5. JobTypeOK'
  BY <1>1, <1>4 DEF IInv, JobTypeOK, TableStep, MarkRunning
<1>6. BatchKnown' /\ QueueKnown'
  BY <1>1 DEF IInv, JobTypeOK, BatchKnown, QueueKnown, TableStep, MarkRunning
<1>7. ExecKnown'
  <2> SUFFICES ASSUME NEW v \in Workers, ~Free(v)'
               PROVE  /\ exec'[v].job \in Jobs
                      /\ Known(exec[v].job)'
                      /\ exec'[v].row.attempts <= runs'[exec'[v].job]
    BY DEF ExecKnown
  <2>1. CASE v = w
    BY <1>1, <1>3, <1>4, <2>1 DEF TableStep, IInv, JobTypeOK, Known
  <2>2. CASE v # w
    <3>1. exec'[v] = exec[v]
      BY <1>1, <2>2 DEF IInv, JobTypeOK
    <3>2. exec[v].job \in Jobs /\ Known(exec[v].job)
          /\ exec[v].row.attempts <= runs[exec[v].job]
      BY <3>1 DEF Free, IInv, ExecKnown
    <3>3. exec[v].row.attempts \in Nat /\ runs[exec[v].job] \in Nat /\ runs'[exec[v].job] \in Nat
      BY <1>4, <3>2 DEF IInv, JobTypeOK, Exec, Job
    <3>4. exec[v].row.attempts <= runs'[exec[v].job]
      BY <1>4, <3>2, <3>3
    <3>5. QED  BY <1>1, <3>1, <3>2, <3>4 DEF TableStep, Known
  <2>3. QED  BY <2>1, <2>2
<1>8. AttemptsCounted'
  <2> SUFFICES ASSUME NEW k \in Jobs PROVE jobs'[k].attempts <= runs'[k]
    BY DEF AttemptsCounted
  <2>1. CASE k = j
    BY <1>1, <1>4, <2>1 DEF IInv, JobTypeOK
  <2>2. CASE k # j
    BY <1>1, <2>2 DEF IInv, JobTypeOK, AttemptsCounted
  <2>3. QED  BY <2>1, <2>2
<1>9. QED  BY <1>5, <1>6, <1>7, <1>8 DEF IInv

\* A worker that ends its task, whatever it did to the table and the queue.
LEMMA RestInv ==
  ASSUME IInv, TableStep, NEW w \in Workers, Idle(w), UNCHANGED <<batch, runs, overlapped>>,
         lost' \subseteq Jobs,
         queue' \in [Jobs -> [Tries -> Nat]],
         \A k \in Jobs, t \in Tries : queue'[k][t] > 0 => Known(k),
         \A k \in Jobs : jobs'[k].attempts = jobs[k].attempts
  PROVE  IInv'
<1>1. exec' \in [Workers -> Exec]
  BY WaitingType DEF IInv, JobTypeOK, Idle
<1>2. JobTypeOK'
  BY <1>1 DEF IInv, JobTypeOK, TableStep
<1>3. BatchKnown' /\ QueueKnown'
  BY DEF IInv, JobTypeOK, BatchKnown, QueueKnown, TableStep
<1>4. ExecKnown'
  <2> SUFFICES ASSUME NEW v \in Workers, ~Free(v)'
               PROVE  /\ exec'[v].job \in Jobs
                      /\ Known(exec[v].job)'
                      /\ exec'[v].row.attempts <= runs'[exec'[v].job]
    BY DEF ExecKnown
  <2>1. v # w
    BY WaitingType DEF Idle, Free, IInv, JobTypeOK
  <2>2. exec'[v] = exec[v]
    BY <2>1 DEF Idle, IInv, JobTypeOK
  <2>3. QED  BY <2>2 DEF Free, IInv, ExecKnown, TableStep, Known
<1>5. QED  BY <1>2, <1>3, <1>4 DEF IInv, AttemptsCounted

LEMMA FinishInv ==
  ASSUME IInv, NEW w \in Workers, Finish(w)
  PROVE  IInv'
<1>1. TableStep /\ \A k \in Jobs : jobs'[k].attempts = jobs[k].attempts
  BY FinishTable
<1>2. CASE Complete(w)
  BY <1>1, <1>2, RestInv DEF Complete, IInv, JobTypeOK, QueueKnown
<1>3. CASE Fail(w)
  <2> DEFINE j == exec[w].job
             t == exec[w].try
  <2>1. j \in Jobs /\ Known(j) /\ t \in Tries
    BY <1>3 DEF Fail, Free, IInv, ExecKnown, JobTypeOK, Exec
  <2>2. \/ UNCHANGED queue
        \/ t < MaxRetries /\ queue' = [queue EXCEPT ![j][t + 1] = @ + 1]
    BY <1>3 DEF Fail
  <2>3. t < MaxRetries => t + 1 \in Tries
    BY <2>1, JobAssumption DEF Tries
  <2>4. queue' \in [Jobs -> [Tries -> Nat]]
    <3>1. queue \in [Jobs -> [Tries -> Nat]] /\ queue[j] \in [Tries -> Nat]
      BY <2>1 DEF IInv, JobTypeOK
    <3>2. CASE UNCHANGED queue
      BY <3>1, <3>2
    <3>3. CASE t < MaxRetries /\ queue' = [queue EXCEPT ![j][t + 1] = @ + 1]
      <4>1. [queue[j] EXCEPT ![t + 1] = @ + 1] \in [Tries -> Nat]
        BY <2>3, <3>1, <3>3
      <4>2. queue' = [queue EXCEPT ![j] = [queue[j] EXCEPT ![t + 1] = @ + 1]]
        BY <3>3
      <4>3. QED  BY <3>1, <4>1, <4>2
    <3>4. QED  BY <2>2, <3>2, <3>3
  <2>5. \A k \in Jobs, u \in Tries : queue'[k][u] > 0 => Known(k)
    BY <2>1, <2>2, <2>3 DEF IInv, JobTypeOK, QueueKnown
  <2>6. QED  BY <1>1, <1>3, <2>4, <2>5, RestInv DEF Fail, IInv, JobTypeOK
<1>4. QED  BY <1>2, <1>3 DEF Finish

LEMMA CrashInv ==
  ASSUME IInv, NEW w \in Workers, Crash(w)
  PROVE  IInv'
<1>1. exec[w].job \in Jobs
  BY DEF Crash, IInv, ExecKnown
<1>2. TableStep
  BY SameTable DEF Crash, TableStep, IInv, JobTypeOK
<1>3. QED  BY <1>1, <1>2, RestInv DEF Crash, IInv, JobTypeOK, QueueKnown

LEMMA ScanInv ==
  ASSUME IInv, Scan \/ DispatchFails
  PROVE  IInv'
<1>1. batch' \subseteq Jobs /\ \A j \in batch' : Known(j)
  <2>1. \A j \in Jobs : Due(j) => Known(j)
    BY DEF Due, Known
  <2>2. QED  BY <2>1 DEF Scan, DispatchFails, IInv, JobTypeOK
<1>2. UNCHANGED <<jobs, queue, exec, runs, lost, overlapped>>
  BY DEF Scan, DispatchFails
<1>3. JobTypeOK' /\ BatchKnown'
  BY <1>1, <1>2, SameTable DEF IInv, JobTypeOK, BatchKnown
<1>4. QED  BY <1>2, <1>3, SameTable DEF IInv, QueueKnown, ExecKnown, AttemptsCounted, Free

LEMMA HandleInv ==
  ASSUME IInv, NEW w \in Workers, Handle(w)
  PROVE  IInv'
<1>1. PICK end \in {"returned", "raised"} : exec' = [exec EXCEPT ![w].pc = end]
  BY DEF Handle
<1>2. [exec[w] EXCEPT !.pc = end] \in Exec
  BY DEF IInv, JobTypeOK, Exec
<1>3. JobTypeOK'
  BY <1>1, <1>2 DEF IInv, JobTypeOK, Handle
<1>4. \A v \in Workers : /\ exec'[v].job = exec[v].job /\ exec'[v].row = exec[v].row
                         /\ ~Free(v)' => ~Free(v)
  BY <1>1 DEF IInv, JobTypeOK, Exec, Free, Handle
<1>5. QED  BY <1>3, <1>4, SameTable DEF IInv, JobTypeOK, BatchKnown, QueueKnown, ExecKnown,
                                       AttemptsCounted, Handle

LEMMA Step == IInv /\ [JobNext]_jobVars => IInv'
<1> SUFFICES ASSUME IInv, [JobNext]_jobVars PROVE IInv'
  OBVIOUS
<1>1. ASSUME NEW j \in Jobs, NEW when \in {"due", "future"}, Create(j, when),
             UNCHANGED <<queue, batch, exec, runs, lost, overlapped>>
      PROVE  IInv'
  <2>1. /\ TableStep /\ jobs'[j].attempts = 0
        /\ \A k \in Jobs : k # j => jobs'[k] = jobs[k]
    BY <1>1, CreateTable DEF IInv
  <2>2. \A k \in Jobs : jobs'[k].attempts <= runs[k]
    BY <2>1 DEF IInv, AttemptsCounted, JobTypeOK
  <2>3. QED  BY <1>1, <2>1, <2>2, QuietInv
<1>2. ASSUME NEW j \in Jobs, Elapse(j)
      PROVE  IInv'
  BY <1>2, ElapseTable, QuietInv DEF IInv, AttemptsCounted, Elapse
<1>3. ASSUME NEW w \in Workers, Handle(w)
      PROVE  IInv'
  BY <1>3, HandleInv
<1>4. ASSUME NEW j \in Jobs, Send(j) \/ Take(j)
      PROVE  IInv'
  BY <1>4, SendInv, ReceiveInv DEF Take
<1>5. CASE Scan \/ DispatchFails
  BY <1>5, ScanInv
<1>6. ASSUME NEW w \in Workers, MarkRunning(w) \/ Finish(w) \/ Crash(w)
      PROVE  IInv'
  BY <1>6, MarkInv, FinishInv, CrashInv
<1>7. CASE UNCHANGED jobVars
  BY <1>7, QuietInv, SameTable DEF jobVars, TableStep, IInv, JobTypeOK, AttemptsCounted
<1>8. QED
  BY <1>1, <1>2, <1>3, <1>4, <1>5, <1>6, <1>7 DEF JobNext, Machinery

LEMMA Inductive == JobSpec => []IInv
  BY InitInv, Step, PTL DEF JobSpec

--------------------------------------------------------------------------------
(***************************************************************************)
(* The theorems.                                                           *)
(***************************************************************************)

\* The table, the queue and the workers keep their types.
THEOREM JobsTypeCorrect == JobSpec => []JobTypeOK
<1>1. IInv => JobTypeOK
  BY DEF IInv
<1>2. QED  BY <1>1, Inductive, PTL

\* mark_running never counts a run that did not start, however many workers run
\* the job at once and whichever of them load a row the others then change.
THEOREM AttemptsNeverOvercount == JobSpec => []AttemptsCounted
<1>1. IInv => AttemptsCounted
  BY DEF IInv
<1>2. QED  BY <1>1, Inductive, PTL

LEMMA BookStart == JobInit => Book!BookInit
  BY DEF JobInit, Book!BookInit, book, NoJob

LEMMA BookStep == IInv /\ [JobNext]_jobVars => [Book!BookNext]_(Book!bookVars)
<1> SUFFICES ASSUME IInv, [JobNext]_jobVars
             PROVE  [Book!BookNext]_(Book!bookVars)
  OBVIOUS
<1>1. ASSUME NEW j \in Jobs, NEW when \in {"due", "future"}, Create(j, when), UNCHANGED runs
      PROVE  Book!BookNext
  BY <1>1, CreateTable DEF IInv, Book!BookNext, Book!Add
<1>2. ASSUME NEW j \in Jobs, Elapse(j)
      PROVE  [Book!BookNext]_(Book!bookVars)
  BY <1>2, ElapseTable DEF IInv, Elapse, Book!BookNext, Book!Ripen, Book!bookVars
<1>3. ASSUME NEW w \in Workers, MarkRunning(w)
      PROVE  Book!BookNext
  <2>1. /\ exec[w].job \in Jobs /\ Known(exec[w].job) /\ book' = book
        /\ runs' = [runs EXCEPT ![exec[w].job] = runs[exec[w].job] + 1]
    BY <1>3, MarkTable
  <2>2. book[exec[w].job] = "due"
    BY <2>1 DEF Known, book
  <2>3. QED  BY <2>1, <2>2 DEF Book!BookNext, Book!Run
<1>4. ASSUME NEW w \in Workers, Finish(w)
      PROVE  UNCHANGED Book!bookVars
  BY <1>4, FinishTable DEF Finish, Complete, Fail, Book!bookVars
<1>5. ASSUME UNCHANGED <<jobs, runs>>
      PROVE  UNCHANGED Book!bookVars
  BY <1>5 DEF Book!bookVars, book
<1>6. ASSUME NEW j \in Jobs, Send(j) \/ Take(j)
      PROVE  UNCHANGED <<jobs, runs>>
  BY <1>6 DEF Send, Take, Receive
<1>7. ASSUME NEW w \in Workers, Handle(w) \/ Crash(w)
      PROVE  UNCHANGED <<jobs, runs>>
  BY <1>7 DEF Handle, Crash
<1>8. CASE Scan \/ DispatchFails \/ UNCHANGED jobVars
  BY <1>5, <1>8 DEF Scan, DispatchFails, jobVars
<1>9. QED
  BY <1>1, <1>2, <1>3, <1>4, <1>5, <1>6, <1>7, <1>8 DEF JobNext, Machinery

\* The table implements what the creators of jobs rely on: one row for a key, for
\* ever, and no run of a handler before its time.
THEOREM ImplementsTheBook == JobSpec => ImplementsBook
<1>1. ASSUME JobInit PROVE Book!BookInit
  BY <1>1, BookStart
<1>2. QED
  BY BookStart, BookStep, Inductive, PTL DEF JobSpec, ImplementsBook, Book!BookSpec

--------------------------------------------------------------------------------
(***************************************************************************)
(* Jobs that no two workers have held at once.  The row the one worker     *)
(* holds then has the stored status and attempts, so what it stores was    *)
(* computed from what is stored.                                           *)
(***************************************************************************)
OneHolder ==
  \A v, w \in Workers :
    ~Free(v) /\ ~Free(w) /\ exec[v].job = exec[w].job /\ exec[w].job \notin overlapped => v = w
AsLoaded(w) ==
  LET q == exec[w] IN
  /\ jobs[q.job].status = q.row.status
  /\ jobs[q.job].attempts = q.row.attempts
  /\ q.row.status # "COMPLETED"
  /\ q.pc # "loaded" => q.row.status = "RUNNING"
HeldAsLoaded == \A w \in Workers : ~Free(w) /\ exec[w].job \notin overlapped => AsLoaded(w)

\* A job without a row has been tried as often as one that was just created.
Untried == \A j \in Jobs \ overlapped : jobs[j].status = "none" => jobs[j].attempts = 0

SoloParts == OneHolder /\ HeldAsLoaded /\ AttemptsExact /\ GivenUpWhenExhausted /\ Untried
SoloInv == IInv /\ SoloParts

LEMMA RunningAsLoaded ==
  ASSUME NEW row \in Job, NEW stored \in Job, stored.status = row.status
  PROVE  RunningRow(row, stored).status = "RUNNING"
<1> DEFINE st == Written("RUNNING", row.status, stored.status)
           at == row.attempts + 1
<1>1. st = "RUNNING"
  BY DEF Written
<1>2. RunningRow(row, stored) = [stored EXCEPT !.status = st, !.attempts = at]
  BY DEF RunningRow, Job
<1> HIDE DEF st, at
<1>3. QED  BY <1>1, <1>2 DEF Job

LEMMA CompletedAsLoaded ==
  ASSUME NEW row \in Job, NEW stored \in Job, stored.status = row.status
  PROVE  CompletedRow(row, stored).status = "COMPLETED"
<1> DEFINE st == Written("COMPLETED", row.status, stored.status)
           re == Written("null", row.retry, stored.retry)
<1>1. st = "COMPLETED"
  BY DEF Written
<1>2. CompletedRow(row, stored) = [stored EXCEPT !.status = st, !.retry = re]
  BY DEF CompletedRow, Job
<1> HIDE DEF st, re
<1>3. QED  BY <1>1, <1>2 DEF Job

LEMMA FailedAsLoaded ==
  ASSUME NEW row \in Job, NEW stored \in Job, stored.status = row.status, row.status = "RUNNING"
  PROVE  FailedRow(row, stored).status = "FAILED" => row.attempts >= MaxAttempts
<1> SUFFICES ASSUME ~(row.attempts >= MaxAttempts)
             PROVE  FailedRow(row, stored).status = "RETRY_SCHEDULED"
  OBVIOUS
<1> DEFINE st == Written("RETRY_SCHEDULED", row.status, stored.status)
<1>1. st = "RETRY_SCHEDULED"
  BY DEF Written
<1>2. FailedRow(row, stored) = [stored EXCEPT !.status = st, !.retry = "waiting"]
  BY DEF FailedRow, Job
<1> HIDE DEF st
<1>3. QED  BY <1>1, <1>2 DEF Job

\* A worker at work, its job and the types of its rows.
LEMMA Held ==
  ASSUME SoloInv, NEW w \in Workers, ~Free(w)
  PROVE  /\ exec[w] \in Exec /\ exec[w].job \in Jobs /\ Known(exec[w].job)
         /\ exec[w].row \in Job /\ jobs[exec[w].job] \in Job
         /\ exec[w].job \notin overlapped => AsLoaded(w)
  BY DEF SoloInv, SoloParts, IInv, JobTypeOK, ExecKnown, HeldAsLoaded, Exec

LEMMA ElapseKeeps ==
  ASSUME JobTypeOK, NEW j \in Jobs, Elapse(j)
  PROVE  \A k \in Jobs : jobs'[k].status = jobs[k].status /\ jobs'[k].attempts = jobs[k].attempts
<1>1. CASE jobs' = [jobs EXCEPT ![j].scheduled = "due"]
  BY <1>1 DEF JobTypeOK, Job
<1>2. CASE jobs' = [jobs EXCEPT ![j].retry = "elapsed"]
  BY <1>2 DEF JobTypeOK, Job
<1>3. QED  BY <1>1, <1>2 DEF Elapse

\* A step that changes neither a status nor the attempts of a job, nor a worker at work.
LEMMA SoloQuiet ==
  ASSUME SoloInv, UNCHANGED <<exec, runs, overlapped>>,
         \A k \in Jobs : jobs'[k].status = jobs[k].status /\ jobs'[k].attempts = jobs[k].attempts
  PROVE  SoloParts'
<1>1. AttemptsExact' /\ GivenUpWhenExhausted' /\ Untried'
  BY DEF SoloInv, SoloParts, AttemptsExact, GivenUpWhenExhausted, Untried
<1>2. OneHolder'
  BY DEF SoloInv, SoloParts, OneHolder, Free
<1>3. ASSUME NEW w \in Workers, ~Free(w)', exec'[w].job \notin overlapped'
      PROVE  AsLoaded(w)'
  <2>1. exec[w].job \in Jobs /\ AsLoaded(w)
    BY <1>3, Held DEF Free
  <2>2. QED  BY <2>1 DEF AsLoaded
<1>4. QED  BY <1>1, <1>2, <1>3 DEF SoloParts, HeldAsLoaded

\* A step of one worker, which writes no job but its own.
LEMMA SoloWork ==
  ASSUME SoloInv, NEW w \in Workers, ~Free(w), overlapped' = overlapped,
         \A v \in Workers \ {w} : exec'[v] = exec[v],
         \A k \in Jobs \ {exec[w].job} : jobs'[k] = jobs[k],
         ~Free(w)' => /\ exec'[w].job = exec[w].job
                      /\ exec[w].job \notin overlapped => AsLoaded(w)'
  PROVE  OneHolder' /\ HeldAsLoaded'
<1>1. ASSUME NEW v \in Workers, ~Free(v)'
      PROVE  ~Free(v) /\ exec'[v].job = exec[v].job
  BY <1>1 DEF Free
<1>2. OneHolder'
  <2>1. ASSUME NEW u \in Workers, NEW v \in Workers, ~Free(u)', ~Free(v)',
               exec'[u].job = exec'[v].job, exec'[v].job \notin overlapped'
        PROVE  u = v
    BY <1>1, <2>1 DEF OneHolder, SoloInv, SoloParts
  <2>2. QED  BY <2>1 DEF OneHolder
<1>3. ASSUME NEW v \in Workers, ~Free(v)', exec'[v].job \notin overlapped'
      PROVE  AsLoaded(v)'
  <2>1. ~Free(v) /\ exec[v].job \notin overlapped /\ exec'[v].job = exec[v].job
    BY <1>1, <1>3
  <2>2. CASE v = w
    BY <1>3, <2>1, <2>2
  <2>3. CASE v # w
    <3>1. exec[v].job # exec[w].job
      BY <2>1, <2>3 DEF OneHolder, SoloInv, SoloParts
    <3>2. exec[v].job \in Jobs /\ AsLoaded(v) /\ exec'[v] = exec[v]
      BY <2>1, <2>3, Held
    <3>3. jobs'[exec[v].job] = jobs[exec[v].job]
      BY <3>1, <3>2
    <3>4. QED  BY <3>2, <3>3 DEF AsLoaded
  <2>4. QED  BY <2>2, <2>3
<1>4. QED  BY <1>2, <1>3 DEF HeldAsLoaded

LEMMA SoloReceive ==
  ASSUME SoloInv, NEW w \in Workers, NEW j \in Jobs, Receive(w, j)
  PROVE  SoloParts'
<1>1. PICK t \in Tries :
        /\ exec' = IF Skipped(jobs[j]) THEN exec
                   ELSE [exec EXCEPT ![w] = [pc |-> "loaded", job |-> j, try |-> t,
                                             row |-> jobs[j]]]
        /\ overlapped' = IF ~Skipped(jobs[j]) /\ (\E v \in Workers : exec[v].job = j)
                         THEN overlapped \cup {j} ELSE overlapped
  BY DEF Receive
<1>2. UNCHANGED <<jobs, runs>>
  BY DEF Receive
<1>3. CASE Skipped(jobs[j])
  <2>1. UNCHANGED <<exec, runs, overlapped>>
    BY <1>1, <1>2, <1>3
  <2>2. QED  BY <1>2, <2>1, SoloQuiet
<1>4. CASE ~Skipped(jobs[j])
  <2>1. /\ exec'[w] = [pc |-> "loaded", job |-> j, try |-> t, row |-> jobs[j]]
        /\ \A v \in Workers : v # w => exec'[v] = exec[v]
    BY <1>1, <1>4 DEF SoloInv, IInv, JobTypeOK
  <2>2. /\ overlapped \subseteq overlapped'
        /\ \A v \in Workers : exec[v].job = j => j \in overlapped'
    BY <1>1, <1>4
  <2>3. AttemptsExact' /\ GivenUpWhenExhausted' /\ Untried'
    BY <1>2, <2>2 DEF SoloInv, SoloParts, AttemptsExact, GivenUpWhenExhausted, Untried
  <2>4. exec'[w].job = j
    BY <2>1
  <2>5. OneHolder'
    <3>1. ASSUME NEW u \in Workers, NEW v \in Workers, ~Free(u)', ~Free(v)',
                 exec'[u].job = exec'[v].job, exec'[v].job \notin overlapped'
          PROVE  u = v
      <4>1. CASE u = w /\ v # w
        BY <2>1, <2>2, <2>4, <3>1, <4>1
      <4>2. CASE u # w /\ v = w
        BY <2>1, <2>2, <2>4, <3>1, <4>2
      <4>3. CASE u # w /\ v # w
        BY <2>1, <2>2, <3>1, <4>3 DEF OneHolder, SoloInv, SoloParts, Free
      <4>4. QED  BY <4>1, <4>2, <4>3
    <3>2. QED  BY <3>1 DEF OneHolder
  <2>6. ASSUME NEW v \in Workers, ~Free(v)', exec'[v].job \notin overlapped'
        PROVE  AsLoaded(v)'
    <3>1. CASE v = w
      BY <1>2, <1>4, <2>1, <3>1 DEF AsLoaded, Skipped
    <3>2. CASE v # w
      <4>1. ~Free(v) /\ exec[v].job \notin overlapped /\ exec'[v] = exec[v]
        BY <2>1, <2>2, <2>6, <3>2 DEF Free
      <4>2. AsLoaded(v)
        BY <4>1, Held
      <4>3. QED  BY <1>2, <4>1, <4>2 DEF AsLoaded
    <3>3. QED  BY <3>1, <3>2
  <2>7. QED  BY <2>3, <2>5, <2>6 DEF SoloParts, HeldAsLoaded
<1>5. QED  BY <1>3, <1>4

LEMMA SoloMark ==
  ASSUME SoloInv, NEW w \in Workers, MarkRunning(w)
  PROVE  SoloParts'
<1> DEFINE j == exec[w].job
           r == RunningRow(exec[w].row, jobs[j])
           q == [exec[w] EXCEPT !.pc = "running", !.row = r]
<1>1. ~Free(w) /\ overlapped' = overlapped
  BY DEF MarkRunning, Free
<1>2. /\ exec[w] \in Exec /\ j \in Jobs /\ exec[w].row \in Job /\ jobs[j] \in Job
      /\ j \notin overlapped => AsLoaded(w)
  BY <1>1, Held
<1>3. /\ r \in Job /\ r.attempts = exec[w].row.attempts + 1
      /\ j \notin overlapped => r.status = "RUNNING"
  BY <1>2, RunningFields, RunningAsLoaded DEF AsLoaded
<1>4. /\ jobs' = [jobs EXCEPT ![j] = r]
      /\ exec' = [exec EXCEPT ![w] = q]
      /\ runs' = [runs EXCEPT ![j] = runs[j] + 1]
  BY MarkTable DEF SoloInv
<1> HIDE DEF r
<1>5. q.job = j /\ q.row = r
  BY <1>2 DEF Exec
<1> HIDE DEF q
<1>6. exec'[w] = q /\ jobs'[j] = r /\ runs'[j] = runs[j] + 1
  BY <1>2, <1>4 DEF SoloInv, IInv, JobTypeOK
<1>7. /\ \A k \in Jobs : k # j => jobs'[k] = jobs[k] /\ runs'[k] = runs[k]
      /\ \A v \in Workers : v # w => exec'[v] = exec[v]
  BY <1>4 DEF SoloInv, IInv, JobTypeOK
<1>8. j \notin overlapped => AsLoaded(w)'
  BY <1>3, <1>5, <1>6 DEF AsLoaded
<1>9. OneHolder' /\ HeldAsLoaded'
  <2>1. exec'[w].job = exec[w].job
    BY <1>5, <1>6
  <2>2. /\ \A v \in Workers \ {w} : exec'[v] = exec[v]
        /\ \A k \in Jobs \ {exec[w].job} : jobs'[k] = jobs[k]
    BY <1>7
  <2>3. QED  BY <1>1, <1>8, <2>1, <2>2, SoloWork
<1>10. AttemptsExact'
  <2>1. ASSUME NEW k \in Jobs \ overlapped'
        PROVE  jobs'[k].attempts = runs'[k]
    <3>1. k \notin overlapped /\ jobs[k].attempts = runs[k]
      BY <1>1, <2>1 DEF SoloInv, SoloParts, AttemptsExact
    <3>2. CASE k = j
      BY <1>2, <1>3, <1>6, <3>1, <3>2 DEF AsLoaded
    <3>3. CASE k # j
      BY <1>7, <3>1, <3>3
    <3>4. QED  BY <3>2, <3>3
  <2>2. QED  BY <2>1 DEF AttemptsExact
<1>11. GivenUpWhenExhausted' /\ Untried'
  BY <1>1, <1>3, <1>6, <1>7 DEF SoloInv, SoloParts, GivenUpWhenExhausted, Untried
<1>12. QED  BY <1>9, <1>10, <1>11 DEF SoloParts

\* A worker that puts its job down.
LEMMA SoloRest ==
  ASSUME SoloInv, NEW w \in Workers, ~Free(w), exec' = [exec EXCEPT ![w] = Waiting],
         overlapped' = overlapped,
         \A k \in Jobs \ {exec[w].job} : jobs'[k] = jobs[k]
  PROVE  OneHolder' /\ HeldAsLoaded'
<1>1. exec'[w] = Waiting /\ \A v \in Workers \ {w} : exec'[v] = exec[v]
  BY DEF SoloInv, IInv, JobTypeOK
<1>2. Free(w)'
  BY <1>1, WaitingType DEF Free
<1>3. QED  BY <1>1, <1>2, SoloWork

LEMMA SoloFinish ==
  ASSUME SoloInv, NEW w \in Workers, Finish(w)
  PROVE  SoloParts'
<1> DEFINE j == exec[w].job
<1>1. ~Free(w) /\ exec[w].pc # "loaded"
  BY DEF Finish, Complete, Fail, Free
<1>2. /\ j \in Jobs /\ exec[w].row \in Job /\ jobs[j] \in Job
      /\ j \notin overlapped => /\ jobs[j].status = exec[w].row.status
                                /\ exec[w].row.status = "RUNNING"
                                /\ jobs[j].attempts = exec[w].row.attempts
  BY <1>1, Held DEF AsLoaded
<1>3. PICK r : /\ jobs' = [jobs EXCEPT ![j] = r]
               /\ j \notin overlapped => /\ r.status = "FAILED" => r.attempts >= MaxAttempts
                                         /\ r.status # "none"
  <2>1. CASE Complete(w)
    <3> DEFINE c == CompletedRow(exec[w].row, jobs[j])
    <3>1. jobs' = [jobs EXCEPT ![j] = c]
      BY <1>2, <2>1 DEF Complete
    <3>2. j \notin overlapped => c.status = "COMPLETED"
      BY <1>2, CompletedAsLoaded
    <3> HIDE DEF c
    <3>3. QED  BY <3>1, <3>2
  <2>2. CASE Fail(w)
    <3> DEFINE f == FailedRow(exec[w].row, jobs[j])
    <3>1. jobs' = [jobs EXCEPT ![j] = f]
      BY <1>2, <2>2 DEF Fail
    <3>2. j \notin overlapped =>
            /\ f.status = "FAILED" => exec[w].row.attempts >= MaxAttempts
            /\ f.attempts = jobs[j].attempts /\ f.status # "none"
      BY <1>2, FailedAsLoaded, FailedFields
    <3> HIDE DEF f
    <3>3. QED  BY <1>2, <3>1, <3>2
  <2>3. QED  BY <2>1, <2>2 DEF Finish
<1>4. exec' = [exec EXCEPT ![w] = Waiting] /\ runs' = runs /\ overlapped' = overlapped
  BY DEF Finish, Complete, Fail, Idle
<1>5. jobs'[j] = r /\ \A k \in Jobs \ {j} : jobs'[k] = jobs[k]
  BY <1>2, <1>3 DEF SoloInv, IInv, JobTypeOK
<1>6. OneHolder' /\ HeldAsLoaded'
  BY <1>1, <1>4, <1>5, SoloRest
<1>7. \A k \in Jobs : jobs'[k].attempts = jobs[k].attempts
  BY FinishTable DEF SoloInv
<1>8. AttemptsExact'
  BY <1>4, <1>7 DEF SoloInv, SoloParts, AttemptsExact
<1>9. GivenUpWhenExhausted' /\ Untried'
  BY <1>3, <1>4, <1>5 DEF SoloInv, SoloParts, GivenUpWhenExhausted, Untried
<1>10. QED  BY <1>6, <1>8, <1>9 DEF SoloParts

LEMMA SoloStep == SoloInv /\ [JobNext]_jobVars => SoloInv'
<1> SUFFICES ASSUME SoloInv, [JobNext]_jobVars
             PROVE  SoloParts'
  BY Step DEF SoloInv
<1>1. ASSUME NEW j \in Jobs, NEW when \in {"due", "future"}, Create(j, when),
             UNCHANGED <<queue, batch, exec, runs, lost, overlapped>>
      PROVE  SoloParts'
  <2>1. jobs[j].status = "none" /\ jobs'[j].status = "PENDING"
    BY <1>1 DEF Create, SoloInv, IInv, JobTypeOK, NoJob
  <2>2. jobs'[j].attempts = 0 /\ \A k \in Jobs : k # j => jobs'[k] = jobs[k]
    BY <1>1, CreateTable DEF SoloInv, SoloParts, IInv
  <2>3. j \notin overlapped => runs[j] = 0
    BY <2>1 DEF SoloInv, SoloParts, AttemptsExact, Untried
  <2>4. AttemptsExact' /\ GivenUpWhenExhausted' /\ Untried'
    BY <1>1, <2>1, <2>2, <2>3 DEF SoloInv, SoloParts, AttemptsExact, GivenUpWhenExhausted, Untried
  <2>5. ASSUME NEW w \in Workers, ~Free(w)', exec'[w].job \notin overlapped'
        PROVE  AsLoaded(w)'
    <3>1. exec[w].job \in Jobs /\ Known(exec[w].job) /\ AsLoaded(w)
      BY <1>1, <2>5, Held DEF Free
    <3>2. exec[w].job # j
      BY <2>1, <3>1 DEF Known
    <3>3. QED  BY <1>1, <2>2, <3>1, <3>2 DEF AsLoaded
  <2>6. OneHolder'
    BY <1>1 DEF SoloInv, SoloParts, OneHolder, Free
  <2>7. QED  BY <2>4, <2>5, <2>6 DEF SoloParts, HeldAsLoaded
<1>2. ASSUME NEW j \in Jobs, Elapse(j)
      PROVE  SoloParts'
  BY <1>2, ElapseKeeps, SoloQuiet DEF SoloInv, SoloParts, IInv, Elapse
<1>3. ASSUME NEW w \in Workers, Handle(w)
      PROVE  SoloParts'
  <2>1. PICK end \in {"returned", "raised"} : exec' = [exec EXCEPT ![w].pc = end]
    BY <1>3 DEF Handle
  <2>2. /\ exec'[w].job = exec[w].job /\ exec'[w].row = exec[w].row
        /\ ~Free(w) /\ exec[w].pc # "loaded"
    BY <1>3, <2>1 DEF Handle, Free, SoloInv, IInv, JobTypeOK, Exec
  <2>3. UNCHANGED <<jobs, runs, overlapped>> /\ \A v \in Workers \ {w} : exec'[v] = exec[v]
    BY <1>3, <2>1 DEF Handle, SoloInv, IInv, JobTypeOK
  <2>4. exec[w].job \notin overlapped => AsLoaded(w)'
    BY <2>2, <2>3, Held DEF AsLoaded
  <2>5. OneHolder' /\ HeldAsLoaded'
    BY <2>2, <2>3, <2>4, SoloWork
  <2>6. QED
    BY <2>3, <2>5 DEF SoloInv, SoloParts, AttemptsExact, GivenUpWhenExhausted, Untried
<1>4. ASSUME NEW j \in Jobs, Take(j)
      PROVE  SoloParts'
  BY <1>4, SoloReceive DEF Take
<1>5. ASSUME NEW w \in Workers, MarkRunning(w) \/ Finish(w)
      PROVE  SoloParts'
  BY <1>5, SoloMark, SoloFinish
<1>6. ASSUME NEW w \in Workers, Crash(w)
      PROVE  SoloParts'
  <2>1. /\ exec' = [exec EXCEPT ![w] = Waiting] /\ UNCHANGED <<jobs, runs, overlapped>>
        /\ ~Free(w)
    BY <1>6 DEF Crash, Idle
  <2>2. OneHolder' /\ HeldAsLoaded'
    BY <2>1, SoloRest
  <2>3. QED
    BY <2>1, <2>2 DEF SoloInv, SoloParts, AttemptsExact, GivenUpWhenExhausted, Untried
<1>7. ASSUME NEW j \in Jobs, Send(j)
      PROVE  SoloParts'
  BY <1>7, SoloQuiet DEF Send
<1>8. CASE Scan \/ DispatchFails \/ UNCHANGED jobVars
  BY <1>8, SoloQuiet DEF Scan, DispatchFails, jobVars
<1>9. QED
  BY <1>1, <1>2, <1>3, <1>4, <1>5, <1>6, <1>7, <1>8 DEF JobNext, Machinery

LEMMA SoloInductive == JobSpec => []SoloInv
<1>1. JobInit => SoloInv
  <2> SUFFICES ASSUME JobInit PROVE SoloInv
    OBVIOUS
  <2>1. IInv
    BY InitInv
  <2>2. \A w \in Workers : Free(w)
    BY WaitingType DEF JobInit, Free
  <2>3. QED
    BY <2>1, <2>2 DEF JobInit, SoloInv, SoloParts, OneHolder, HeldAsLoaded, AttemptsExact,
                      GivenUpWhenExhausted, Untried, NoJob
<1>2. SoloInv /\ [JobNext]_jobVars => SoloInv'
  BY SoloStep
<1>3. QED  BY <1>1, <1>2, PTL DEF JobSpec

LEMMA SoloFinal ==
  ASSUME SoloInv, [JobNext]_jobVars, NEW j \in Jobs \ overlapped, jobs[j].status = "COMPLETED"
  PROVE  jobs'[j].status = "COMPLETED"
<1>1. ASSUME NEW k \in Jobs, NEW when \in {"due", "future"}, Create(k, when)
      PROVE  jobs'[j].status = "COMPLETED"
  BY <1>1, CreateTable DEF Create, SoloInv, IInv
<1>2. ASSUME NEW k \in Jobs, Elapse(k)
      PROVE  jobs'[j].status = "COMPLETED"
  BY <1>2, ElapseKeeps DEF SoloInv, IInv
<1>3. ASSUME NEW w \in Workers, MarkRunning(w) \/ Finish(w)
      PROVE  jobs'[j].status = "COMPLETED"
  <2>1. ~Free(w)
    BY <1>3 DEF MarkRunning, Finish, Complete, Fail, Free
  <2>2. exec[w].job # j
    BY <2>1, Held DEF AsLoaded
  <2>3. PICK r : jobs' = [jobs EXCEPT ![exec[w].job] = r]
    BY <1>3 DEF MarkRunning, Finish, Complete, Fail
  <2>4. QED  BY <2>2, <2>3 DEF SoloInv, IInv, JobTypeOK
<1>4. ASSUME UNCHANGED jobs
      PROVE  jobs'[j].status = "COMPLETED"
  BY <1>4
<1>5. ASSUME NEW k \in Jobs, Send(k) \/ Take(k)
      PROVE  UNCHANGED jobs
  BY <1>5 DEF Send, Take, Receive
<1>6. ASSUME NEW w \in Workers, Handle(w) \/ Crash(w)
      PROVE  UNCHANGED jobs
  BY <1>6 DEF Handle, Crash
<1>7. CASE Scan \/ DispatchFails \/ UNCHANGED jobVars
  BY <1>4, <1>7 DEF Scan, DispatchFails, jobVars
<1>8. QED
  BY <1>1, <1>2, <1>3, <1>4, <1>5, <1>6, <1>7 DEF JobNext, Machinery

\* mark_running: attempts counts every run of a job, whatever is lost, sent twice or
\* retried, for any number of workers, as long as no two have held the job at once.
THEOREM AttemptsCountRuns == JobSpec => []AttemptsExact
<1>1. SoloInv => AttemptsExact
  BY DEF SoloInv, SoloParts
<1>2. QED  BY <1>1, SoloInductive, PTL

\* mark_failed gives such a job up only after max_attempts.
THEOREM GivenUpLate == JobSpec => []GivenUpWhenExhausted
<1>1. SoloInv => GivenUpWhenExhausted
  BY DEF SoloInv, SoloParts
<1>2. QED  BY <1>1, SoloInductive, PTL

\* Such a job stays completed: whichever workers take its duplicates and Celery's retries
\* find it so and return.
THEOREM CompletedStays == JobSpec => CompletedIsFinal
<1>1. SoloInv /\ [JobNext]_jobVars =>
        [\A j \in Jobs \ overlapped :
           jobs[j].status = "COMPLETED" => jobs'[j].status = "COMPLETED"]_jobVars
  BY SoloFinal
<1>2. QED  BY <1>1, SoloInductive, PTL DEF JobSpec, CompletedIsFinal

--------------------------------------------------------------------------------
(***************************************************************************)
(*                           OUTBOUND ITEMS                                *)
(***************************************************************************)

NoneHolds(i) == \A c \in Couriers : courier[c].item # i
OneHolds(i) == \A c, d \in Couriers : courier[c].item = i /\ courier[d].item = i => c = d
JobFree(i) == jobs[i].status = "none"

\* A courier at work has loaded the item as queued before its first failure, and as
\* failed once there is a retry job.
CourierOK(c) ==
  LET q == courier[c] IN
  /\ q.pc = "idle" <=> q.item = NoId
  /\ q.pc = "called" => q.result # "none"
  /\ q.pc = "failed" => status[q.item] \in {"SENT", "FAILED"}
  /\ q.pc \in {"loaded", "called"} =>
       IF JobFree(q.item) THEN q.seen = "QUEUED" /\ status[q.item] = "QUEUED"
       ELSE q.seen = "FAILED"

\* Until its retry job exists, an item is in one place: a request, the queue or a courier.
OneCarrier(i) ==
  JobFree(i) =>
    /\ status[i] # "QUEUED" => i \notin sending /\ mail[i] = 0
    /\ status[i] \in {"none", "SENT"} => NoneHolds(i)
    /\ mail[i] <= 1 /\ (i \in sending => mail[i] = 0)
    /\ i \in sending \/ mail[i] = 1 => NoneHolds(i)
    /\ OneHolds(i)

\* Only an item that has been called has a retry job.
Retried(i) == ~JobFree(i) => i \notin sending /\ status[i] \in {"SENT", "FAILED"}

\* An item nobody shared or dropped was accepted once at most, and either its status
\* says so or its only courier is about to.
Accepted(c, i) ==
  courier[c].item = i /\ courier[c].pc = "called" /\ courier[c].result = "SENT"
Explained(i) ==
  i \notin shared \cup dropped =>
    /\ OneHolds(i) /\ sent[i] <= 1
    /\ \A c \in Couriers : courier[c].item = i /\ courier[c].pc = "loaded" => sent[i] = 0
    /\ sent[i] = 1 => status[i] = "SENT" \/ \E c \in Couriers : Accepted(c, i)

\* A send has been made, or is still to come from a row, a request, the queue, a
\* courier or a handler: one for the item itself and one for each run of its job.
Loading(i) == {c \in Couriers : courier[c].pc = "loaded" /\ courier[c].item = i}
RunningOn(i) == {w \in Workers : exec[w].pc = "running" /\ exec[w].job = i}
Composing(i) == IF status[i] = "none" \/ i \in sending THEN 1 ELSE 0
Bounded(i) ==
  Composing(i) + mail[i] + Cardinality(Loading(i)) + Cardinality(RunningOn(i)) + sent[i]
    <= 1 + runs[i]

DInv ==
  /\ IInv
  /\ TypeOK
  /\ \A c \in Couriers : CourierOK(c)
  /\ \A i \in Items : OneCarrier(i) /\ Retried(i)
  /\ \A i \in Items : Explained(i)
  /\ \A i \in Items : Bounded(i)
  /\ FailureHasRetry

--------------------------------------------------------------------------------
(***************************************************************************)
(* The jobs.                                                               *)
(***************************************************************************)
LEMMA JobStep == TypeOK /\ (\A c \in Couriers : CourierOK(c)) /\ [Next]_vars => [JobNext]_jobVars
<1> SUFFICES ASSUME TypeOK, \A c \in Couriers : CourierOK(c), [Next]_vars
             PROVE  [JobNext]_jobVars
  OBVIOUS
<1>1. ASSUME NEW i \in Items, Compose(i) \/ Submit(i) \/ SubmitFails(i)
      PROVE  UNCHANGED jobVars
  BY <1>1 DEF Compose, Submit, SubmitFails
<1>2. ASSUME NEW c \in Couriers,
             \/ \E i \in Items : PickUp(c, i)
             \/ CallPlatform(c) \/ CallBreaks(c) \/ Store(c) \/ CourierDies(c)
      PROVE  UNCHANGED jobVars
  BY <1>2 DEF PickUp, CallPlatform, CallBreaks, Store, CourierDies
<1>3. ASSUME NEW c \in Couriers, ScheduleRetry(c)
      PROVE  [JobNext]_jobVars
  <2>1. CASE jobs' = jobs
    BY <1>3, <2>1 DEF ScheduleRetry, jobVars
  <2>2. CASE Create(courier[c].item, "due")
    <3>1. courier[c].item \in Jobs
      BY <1>3 DEF ScheduleRetry, TypeOK, Courier, CourierOK, Items
    <3>2. QED  BY <1>3, <2>2, <3>1 DEF ScheduleRetry, JobNext
  <2>3. QED  BY <1>3, <2>1, <2>2 DEF ScheduleRetry, RetryJob
<1>4. ASSUME NEW w \in Workers, HandleRetry(w)
      PROVE  JobNext
  BY <1>4 DEF HandleRetry, JobNext
<1>5. CASE UNCHANGED vars
  BY <1>5 DEF vars
<1>6. CASE Machinery
  BY <1>6 DEF JobNext
<1>7. QED  BY <1>1, <1>2, <1>3, <1>4, <1>5, <1>6 DEF Next

\* Work in hand and runs: a job that starts adds to both, and only a handler that
\* ends takes one from its worker.
Balanced ==
  \A j \in Jobs : Cardinality(RunningOn(j)') + runs[j] <= Cardinality(RunningOn(j)) + runs'[j]

LEMMA FiniteSides ==
  ASSUME NEW i
  PROVE  /\ IsFiniteSet(Loading(i)) /\ IsFiniteSet(RunningOn(i))
         /\ Cardinality(Loading(i)) \in Nat /\ Cardinality(RunningOn(i)) \in Nat
<1>1. Loading(i) \in SUBSET Couriers /\ RunningOn(i) \in SUBSET Workers
  BY DEF Loading, RunningOn
<1>2. IsFiniteSet(Loading(i)) /\ IsFiniteSet(RunningOn(i))
  BY <1>1, DeliveryAssumption, FS_Subset
<1>3. QED  BY <1>2, FS_CardinalityType

LEMMA RunnersFinite ==
  ASSUME NEW i
  PROVE  IsFiniteSet(RunningOn(i)') /\ Cardinality(RunningOn(i)') \in Nat
<1>1. RunningOn(i)' \in SUBSET Workers
  BY DEF RunningOn
<1>2. IsFiniteSet(RunningOn(i)')
  BY <1>1, DeliveryAssumption, FS_Subset
<1>3. QED  BY <1>2, FS_CardinalityType

LEMMA FewerRunners ==
  ASSUME \A w \in Workers : exec'[w] = exec[w] \/ exec'[w].pc # "running", runs' = runs,
         JobTypeOK
  PROVE  Balanced
<1> SUFFICES ASSUME NEW j \in Jobs
             PROVE  Cardinality(RunningOn(j)') <= Cardinality(RunningOn(j)) /\ runs[j] \in Nat
                    /\ Cardinality(RunningOn(j)') \in Nat /\ Cardinality(RunningOn(j)) \in Nat
  BY DEF Balanced
<1>1. RunningOn(j)' \in SUBSET RunningOn(j)
  BY DEF RunningOn
<1>2. QED  BY <1>1, FS_Subset, FiniteSides, RunnersFinite DEF JobTypeOK

LEMMA MachineryJobs ==
  ASSUME IInv, Machinery
  PROVE  (\A j \in Jobs : JobFree(j)' <=> JobFree(j)) /\ Balanced
<1>1. JobTypeOK
  BY DEF IInv
<1>2. ASSUME NEW j \in Jobs, Elapse(j)
      PROVE  (\A k \in Jobs : JobFree(k)' <=> JobFree(k)) /\ Balanced
  <2>1. exec' = exec /\ runs' = runs
    BY <1>2 DEF Elapse
  <2>2. \A k \in Jobs : jobs'[k].status = jobs[k].status
    <3>1. CASE jobs' = [jobs EXCEPT ![j].scheduled = "due"]
      BY <1>1, <3>1 DEF JobTypeOK, Job
    <3>2. CASE jobs' = [jobs EXCEPT ![j].retry = "elapsed"]
      BY <1>1, <3>2 DEF JobTypeOK, Job
    <3>3. QED  BY <1>2, <3>1, <3>2 DEF Elapse
  <2>3. \A k \in Jobs : JobFree(k)' <=> JobFree(k)
    BY <2>2 DEF JobFree
  <2>4. QED  BY <1>1, <2>1, <2>3, FewerRunners
<1>3. CASE Scan \/ DispatchFails \/ (\E j \in Jobs : Send(j))
  BY <1>1, <1>3, FewerRunners DEF Scan, DispatchFails, Send, JobFree
<1>4. ASSUME NEW j \in Jobs, NEW w \in Workers, Receive(w, j)
      PROVE  (\A k \in Jobs : JobFree(k)' <=> JobFree(k)) /\ Balanced
  <2>1. jobs' = jobs /\ runs' = runs
    BY <1>4 DEF Receive
  <2>2. \A v \in Workers : exec'[v] = exec[v] \/ exec'[v].pc # "running"
    BY <1>1, <1>4 DEF Receive, JobTypeOK
  <2>3. QED  BY <1>1, <2>1, <2>2, FewerRunners DEF JobFree
<1>5. ASSUME NEW w \in Workers, MarkRunning(w)
      PROVE  (\A k \in Jobs : JobFree(k)' <=> JobFree(k)) /\ Balanced
  <2> DEFINE j == exec[w].job
  <2>1. /\ TableStep /\ j \in Jobs /\ Known(j)
        /\ runs' = [runs EXCEPT ![j] = runs[j] + 1]
    BY <1>5, MarkTable
  <2>2. \A k \in Jobs : JobFree(k)' <=> JobFree(k)
    <3>1. \A k \in Jobs : k # j => jobs'[k] = jobs[k]
      BY <1>1, <1>5 DEF MarkRunning, JobTypeOK
    <3>2. \A k \in Jobs : k = j => ~JobFree(k) /\ ~JobFree(k)'
      BY <2>1 DEF TableStep, JobFree, Known
    <3>3. QED  BY <3>1, <3>2 DEF JobFree
  <2>3. ASSUME NEW k \in Jobs
        PROVE  Cardinality(RunningOn(k)') + runs[k] <= Cardinality(RunningOn(k)) + runs'[k]
    <3>1. /\ \A v \in Workers : v # w => exec'[v] = exec[v]
          /\ exec'[w].pc = "running" /\ exec'[w].job = j
      BY <1>1, <1>5 DEF MarkRunning, JobTypeOK, Exec
    <3>2. runs[k] \in Nat
      BY <1>1 DEF JobTypeOK
    <3>3. CASE k = j
      <4>1. RunningOn(k)' \in SUBSET (RunningOn(k) \cup {w})
        BY <3>1 DEF RunningOn
      <4>2. /\ IsFiniteSet(RunningOn(k) \cup {w})
            /\ Cardinality(RunningOn(k) \cup {w}) <= Cardinality(RunningOn(k)) + 1
        <5>1. IsFiniteSet(RunningOn(k)) /\ Cardinality(RunningOn(k)) \in Nat
          BY FiniteSides
        <5>2. /\ IsFiniteSet(RunningOn(k) \cup {w})
              /\ Cardinality(RunningOn(k) \cup {w}) =
                   IF w \in RunningOn(k) THEN Cardinality(RunningOn(k))
                   ELSE Cardinality(RunningOn(k)) + 1
          BY <5>1, FS_AddElement
        <5>3. QED  BY <5>1, <5>2
      <4>3. Cardinality(RunningOn(k)') <= Cardinality(RunningOn(k) \cup {w})
        BY <4>1, <4>2, FS_Subset
      <4>4. Cardinality(RunningOn(k) \cup {w}) \in Nat
        BY <4>2, FS_CardinalityType
      <4>5. runs'[k] = runs[k] + 1
        BY <1>1, <2>1, <3>3 DEF JobTypeOK
      <4>6. QED  BY <3>2, <4>2, <4>3, <4>4, <4>5, FiniteSides, RunnersFinite
    <3>4. CASE k # j
      <4>1. RunningOn(k)' \in SUBSET RunningOn(k)
        BY <3>1, <3>4 DEF RunningOn
      <4>2. runs'[k] = runs[k]
        BY <1>1, <2>1, <3>4 DEF JobTypeOK
      <4>3. Cardinality(RunningOn(k)') <= Cardinality(RunningOn(k))
        BY <4>1, FS_Subset, FiniteSides
      <4>4. QED  BY <3>2, <4>2, <4>3, FiniteSides, RunnersFinite
    <3>5. QED  BY <3>3, <3>4
  <2>4. QED  BY <2>2, <2>3 DEF Balanced
<1>6. ASSUME NEW w \in Workers, Finish(w) \/ Crash(w)
      PROVE  (\A k \in Jobs : JobFree(k)' <=> JobFree(k)) /\ Balanced
  <2>1. jobs' \in [Jobs -> Job] /\ book' = book
    <3>1. CASE Finish(w)
      BY <3>1, FinishTable DEF TableStep
    <3>2. CASE Crash(w)
      BY <1>1, <3>2 DEF Crash, book, JobTypeOK
    <3>3. QED  BY <1>6, <3>1, <3>2
  <2>2. \A k \in Jobs : JobFree(k)' <=> JobFree(k)
    <3>1. \A k \in Jobs : (book[k] = "none" <=> JobFree(k)) /\ (book'[k] = "none" <=> JobFree(k)')
      BY <1>1, <2>1 DEF book, JobFree, JobTypeOK, Job
    <3>2. QED  BY <2>1, <3>1
  <2>3. runs' = runs /\ Idle(w)
    BY <1>6 DEF Finish, Complete, Fail, Crash
  <2>4. \A v \in Workers : exec'[v] = exec[v] \/ exec'[v].pc # "running"
    BY <1>1, <2>3, WaitingType DEF Idle, JobTypeOK
  <2>5. QED  BY <1>1, <2>2, <2>3, <2>4, FewerRunners
<1>7. QED  BY <1>2, <1>3, <1>4, <1>5, <1>6 DEF Machinery, Take

--------------------------------------------------------------------------------
(***************************************************************************)
(* The couriers.                                                           *)
(***************************************************************************)
\* The couriers loaded with an item when courier c moves.
LEMMA LoadCount ==
  ASSUME courier \in [Couriers -> Courier], NEW c \in Couriers, NEW n,
         courier' = [courier EXCEPT ![c] = n], NEW i
  PROVE  LET was == courier[c].pc = "loaded" /\ courier[c].item = i
             is == n.pc = "loaded" /\ n.item = i
         IN  /\ Cardinality(Loading(i)') \in Nat
             /\ (was <=> is) => Cardinality(Loading(i)') = Cardinality(Loading(i))
             /\ was /\ ~is => Cardinality(Loading(i)') = Cardinality(Loading(i)) - 1
             /\ ~was /\ is => Cardinality(Loading(i)') = Cardinality(Loading(i)) + 1
<1> DEFINE was == courier[c].pc = "loaded" /\ courier[c].item = i
           is == n.pc = "loaded" /\ n.item = i
<1>1. IsFiniteSet(Loading(i)) /\ Cardinality(Loading(i)) \in Nat
  BY FiniteSides
<1>2. /\ c \in Loading(i) <=> was
      /\ Loading(i)' = IF is THEN Loading(i) \cup {c} ELSE Loading(i) \ {c}
  BY DEF Loading
<1> HIDE DEF was, is
<1>3. CASE is
  <2>1. Loading(i)' = Loading(i) \cup {c}
    BY <1>2, <1>3
  <2>2. Cardinality(Loading(i) \cup {c}) =
          IF c \in Loading(i) THEN Cardinality(Loading(i)) ELSE Cardinality(Loading(i)) + 1
    BY <1>1, FS_AddElement
  <2>3. QED  BY <1>1, <1>2, <1>3, <2>1, <2>2 DEF was, is
<1>4. CASE ~is
  <2>1. Loading(i)' = Loading(i) \ {c}
    BY <1>2, <1>4
  <2>2. /\ IsFiniteSet(Loading(i) \ {c})
        /\ Cardinality(Loading(i) \ {c}) =
             IF c \in Loading(i) THEN Cardinality(Loading(i)) - 1 ELSE Cardinality(Loading(i))
    BY <1>1, FS_RemoveElement
  <2>3. Cardinality(Loading(i)') \in Nat
    BY <2>1, <2>2, FS_CardinalityType
  <2>4. QED  BY <1>1, <1>2, <1>4, <2>1, <2>2, <2>3 DEF was, is
<1>5. QED  BY <1>3, <1>4

\* Their number, when c neither takes the item nor lets go of it.
LEMMA LoadSame ==
  ASSUME courier \in [Couriers -> Courier], NEW c \in Couriers, NEW n,
         courier' = [courier EXCEPT ![c] = n], NEW i,
         ~(courier[c].pc = "loaded" /\ courier[c].item = i), ~(n.pc = "loaded" /\ n.item = i)
  PROVE  Cardinality(Loading(i)') = Cardinality(Loading(i))
<1>1. Loading(i)' = Loading(i)
  BY DEF Loading
<1>2. QED  BY <1>1

LEMMA RestingFields == Resting \in Courier /\ Resting.pc = "idle" /\ Resting.item = NoId
  BY DEF Resting, Courier, Statuses2

LEMMA DInitInv == Init => DInv
<1> SUFFICES ASSUME Init PROVE DInv
  OBVIOUS
<1>1. IInv
  BY InitInv DEF Init
<1>2. TypeOK
  BY <1>1, RestingFields DEF Init, IInv, TypeOK, Statuses2
<1>3. /\ \A c \in Couriers : courier[c].pc = "idle" /\ courier[c].item = NoId
      /\ \A i \in Items : /\ JobFree(i) /\ status[i] = "none" /\ mail[i] = 0 /\ sent[i] = 0
                          /\ i # NoId
      /\ sending = {}
  BY RestingFields, JobAssumption DEF Init, JobInit, JobFree, NoJob, Items
<1>4. \A c \in Couriers : CourierOK(c)
  BY <1>3 DEF CourierOK
<1>5. \A i \in Items : OneCarrier(i) /\ Retried(i) /\ Explained(i)
  BY <1>3 DEF OneCarrier, Retried, Explained, NoneHolds, OneHolds
<1>6. ASSUME NEW i \in Items PROVE Bounded(i)
  <2>1. Loading(i) = {} /\ RunningOn(i) = {}
    BY <1>3, WaitingType DEF Init, JobInit, Loading, RunningOn
  <2>2. Cardinality(Loading(i)) = 0 /\ Cardinality(RunningOn(i)) = 0
    BY <2>1, FS_EmptySet
  <2>3. runs[i] = 0
    BY DEF Init, JobInit, Items
  <2>4. QED  BY <1>3, <2>2, <2>3 DEF Bounded, Composing
<1>7. FailureHasRetry
  BY <1>3 DEF FailureHasRetry
<1>8. QED  BY <1>1, <1>2, <1>4, <1>5, <1>6, <1>7 DEF DInv

\* The invariant after a step that keeps the jobs' part.
LEMMA StepParts ==
  ASSUME IInv', TypeOK', \A c \in Couriers : CourierOK(c)', \A i \in Items : OneCarrier(i)',
         \A i \in Items : Retried(i)', \A i \in Items : Explained(i)',
         \A i \in Items : Bounded(i)', FailureHasRetry'
  PROVE  DInv'
BY DEF DInv

\* The machinery of the jobs, and nothing.
LEMMA MachineryInv ==
  ASSUME DInv, IInv', UNCHANGED deliveryVars, \A j \in Jobs : JobFree(j)' <=> JobFree(j), Balanced
  PROVE  DInv'
<1>1. UNCHANGED <<status, sending, mail, courier, sent, dropped, shared>>
  BY DEF deliveryVars
<1>2. TypeOK'
  BY <1>1 DEF DInv, IInv, TypeOK
<1>3. \A c \in Couriers : CourierOK(c)'
  <2> SUFFICES ASSUME NEW c \in Couriers PROVE CourierOK(c)'
    OBVIOUS
  <2>1. CourierOK(c) /\ courier[c] \in Courier
    BY DEF DInv, TypeOK
  <2>2. courier[c].pc # "idle" =>
          (jobs'[courier[c].item].status = "none" <=> jobs[courier[c].item].status = "none")
    BY <2>1 DEF CourierOK, Courier, JobFree, Items
  <2>3. QED  BY <1>1, <2>1, <2>2 DEF CourierOK, JobFree
<1>4. \A i \in Items : OneCarrier(i)' /\ Retried(i)' /\ Explained(i)'
  BY <1>1 DEF DInv, OneCarrier, Retried, Explained, NoneHolds, OneHolds, Accepted, JobFree, Items
<1>5. ASSUME NEW i \in Items PROVE Bounded(i)'
  <2>1. /\ Bounded(i) /\ runs[i] \in Nat /\ runs'[i] \in Nat /\ mail[i] \in Nat /\ sent[i] \in Nat
        /\ Composing(i) \in Nat
    BY DEF DInv, IInv, JobTypeOK, TypeOK, Items, Composing
  <2>2. Loading(i)' = Loading(i) /\ Composing(i)' = Composing(i)
    BY <1>1 DEF Loading, Composing
  <2>3. Cardinality(RunningOn(i)') + runs[i] <= Cardinality(RunningOn(i)) + runs'[i]
    BY DEF Balanced, Items
  <2>4. QED  BY <1>1, <2>1, <2>2, <2>3, FiniteSides, RunnersFinite DEF Bounded
<1>6. FailureHasRetry'
  BY <1>1 DEF DInv, FailureHasRetry, JobFree, Items
<1>7. QED  BY <1>2, <1>3, <1>4, <1>5, <1>6, StepParts

--------------------------------------------------------------------------------
(***************************************************************************)
(* The request.                                                            *)
(***************************************************************************)
LEMMA SameJobs ==
  ASSUME IInv, UNCHANGED jobVars
  PROVE  /\ IInv' /\ JobTypeOK' /\ jobs' = jobs /\ runs' = runs
         /\ \A i \in Items : JobFree(i)' <=> JobFree(i)
         /\ \A i \in Items : RunningOn(i)' = RunningOn(i)
<1>1. IInv'
  BY Step
<1>2. UNCHANGED <<jobs, exec, runs>>
  BY DEF jobVars
<1>3. QED  BY <1>1, <1>2 DEF IInv, JobFree, RunningOn

\* The numbers that Bounded adds.
LEMMA Counts ==
  ASSUME DInv, NEW i \in Items
  PROVE  /\ Composing(i) \in {0, 1} /\ mail[i] \in Nat /\ sent[i] \in Nat /\ runs[i] \in Nat
         /\ Cardinality(Loading(i)) \in Nat /\ Cardinality(RunningOn(i)) \in Nat
         /\ Composing(i) + mail[i] + Cardinality(Loading(i)) + Cardinality(RunningOn(i)) + sent[i]
              <= 1 + runs[i]
BY FiniteSides DEF DInv, IInv, JobTypeOK, TypeOK, Items, Composing, Bounded

LEMMA RequestInv ==
  ASSUME DInv, NEW i \in Items, Compose(i) \/ Submit(i) \/ SubmitFails(i)
  PROVE  DInv'
<1>1. /\ UNCHANGED jobVars /\ UNCHANGED <<courier, sent, dropped, shared>>
      /\ \/ status[i] = "none" /\ status' = [status EXCEPT ![i] = "QUEUED"]
            /\ sending' = sending \cup {i} /\ mail' = mail
         \/ i \in sending /\ status' = status /\ sending' = sending \ {i}
            /\ mail' = [mail EXCEPT ![i] = @ + 1]
         \/ i \in sending /\ status' = status /\ sending' = sending \ {i} /\ mail' = mail
  BY DEF Compose, Submit, SubmitFails, Deposit
<1>2. /\ IInv' /\ JobTypeOK' /\ jobs' = jobs /\ runs' = runs
      /\ \A k \in Items : JobFree(k)' <=> JobFree(k)
      /\ \A k \in Items : RunningOn(k)' = RunningOn(k)
  BY <1>1, SameJobs DEF DInv
<1>3. /\ status \in [Items -> Statuses2] /\ mail \in [Items -> Nat] /\ TypeOK
      /\ OneCarrier(i) /\ Retried(i) /\ JobFree(i)
  BY <1>1 DEF DInv, TypeOK, Retried
<1>4. /\ \A k \in Items : /\ k # i => status'[k] = status[k] /\ mail'[k] = mail[k]
                          /\ k # i => (k \in sending' <=> k \in sending)
      /\ mail[i] = 0 /\ NoneHolds(i) /\ mail'[i] \in {0, 1} /\ status[i] \in {"none", "QUEUED"}
      /\ status'[i] = "QUEUED" /\ (i \in sending' => mail'[i] = 0)
  BY <1>1, <1>3 DEF OneCarrier, Statuses2
<1>5. TypeOK'
  <2>1. status' \in [Items -> Statuses2] /\ sending' \subseteq Items /\ mail' \in [Items -> Nat]
    BY <1>1, <1>3 DEF TypeOK, Statuses2
  <2>2. QED  BY <1>1, <1>2, <1>3, <2>1 DEF TypeOK
<1>6. \A c \in Couriers : CourierOK(c)'
  <2> SUFFICES ASSUME NEW c \in Couriers PROVE CourierOK(c)'
    OBVIOUS
  <2>1. CourierOK(c) /\ courier[c] \in Courier /\ courier[c].item # i
    BY <1>3, <1>4 DEF DInv, TypeOK, NoneHolds
  <2>2. courier[c].pc # "idle" => status'[courier[c].item] = status[courier[c].item]
    BY <1>4, <2>1 DEF CourierOK, Courier
  <2>3. QED  BY <1>1, <1>2, <2>1, <2>2 DEF CourierOK, JobFree
<1>7. ASSUME NEW k \in Items
      PROVE  OneCarrier(k)' /\ Retried(k)' /\ Explained(k)'
  <2>1. OneCarrier(k) /\ Retried(k) /\ Explained(k)
    BY DEF DInv
  <2>2. CASE k # i
    BY <1>1, <1>2, <1>4, <2>1, <2>2
       DEF OneCarrier, Retried, Explained, NoneHolds, OneHolds, Accepted
  <2>3. CASE k = i
    BY <1>1, <1>2, <1>3, <1>4, <2>1, <2>3
       DEF OneCarrier, Retried, Explained, NoneHolds, OneHolds, Accepted
  <2>4. QED  BY <2>2, <2>3
<1>8. ASSUME NEW k \in Items PROVE Bounded(k)'
  <2>1. Loading(k)' = Loading(k)
    BY <1>1 DEF Loading
  <2>2. Composing(k)' + mail'[k] <= Composing(k) + mail[k]
        /\ Composing(k)' \in Nat /\ mail'[k] \in Nat
    BY <1>1, <1>3, <1>4, <1>5 DEF Composing, TypeOK
  <2>3. QED  BY <1>1, <1>2, <2>1, <2>2, Counts DEF Bounded
<1>9. FailureHasRetry'
  BY <1>1, <1>2, <1>4 DEF DInv, FailureHasRetry
<1>10. QED  BY <1>2, <1>5, <1>6, <1>7, <1>8, <1>9, StepParts

--------------------------------------------------------------------------------
(***************************************************************************)
(* A courier's steps.                                                      *)
(***************************************************************************)
LEMMA PickUpInv ==
  ASSUME DInv, NEW c \in Couriers, NEW i \in Items, PickUp(c, i)
  PROVE  DInv'
<1>1. /\ UNCHANGED jobVars /\ UNCHANGED <<status, sending, sent, dropped>>
      /\ courier[c].pc = "idle" /\ mail[i] > 0 /\ mail' = [mail EXCEPT ![i] = @ - 1]
  BY DEF PickUp
<1>2. /\ IInv' /\ JobTypeOK' /\ jobs' = jobs /\ runs' = runs
      /\ \A k \in Items : JobFree(k)' <=> JobFree(k)
      /\ \A k \in Items : RunningOn(k)' = RunningOn(k)
  BY <1>1, SameJobs DEF DInv
<1>3. /\ TypeOK /\ OneCarrier(i) /\ Retried(i) /\ courier \in [Couriers -> Courier]
      /\ status \in [Items -> Statuses2] /\ mail \in [Items -> Nat] /\ courier[c].item = NoId
      /\ NoId \notin Items /\ CourierOK(c)
  BY <1>1, JobAssumption DEF DInv, TypeOK, CourierOK, Items
<1>4. /\ mail'[i] = mail[i] - 1 /\ mail' \in [Items -> Nat]
      /\ \A k \in Items : k # i => mail'[k] = mail[k]
  BY <1>1, <1>3
<1>5. CASE Delivered(status[i])
  <2>1. UNCHANGED <<courier, shared>>
    BY <1>5 DEF PickUp
  <2>2. TypeOK'
    BY <1>1, <1>2, <1>3, <1>4, <2>1 DEF TypeOK
  <2>3. \A d \in Couriers : CourierOK(d)'
    BY <1>1, <1>2, <2>1 DEF DInv, CourierOK, JobFree
  <2>4. \A k \in Items : OneCarrier(k)' /\ Retried(k)' /\ Explained(k)'
    BY <1>1, <1>2, <1>3, <1>4, <2>1
       DEF DInv, OneCarrier, Retried, Explained, NoneHolds, OneHolds, Accepted
  <2>5. ASSUME NEW k \in Items PROVE Bounded(k)'
    <3>1. Loading(k)' = Loading(k) /\ Composing(k)' = Composing(k)
      BY <1>1, <2>1 DEF Loading, Composing
    <3>2. mail'[k] \in Nat /\ mail'[k] <= mail[k]
      BY <1>3, <1>4
    <3>3. QED  BY <1>1, <1>2, <3>1, <3>2, Counts DEF Bounded
  <2>6. FailureHasRetry'
    BY <1>1, <1>2, <2>1 DEF DInv, FailureHasRetry
  <2>7. QED  BY <1>2, <2>2, <2>3, <2>4, <2>5, <2>6, StepParts
<1>6. CASE ~Delivered(status[i])
  <2> DEFINE n == [Resting EXCEPT !.pc = "loaded", !.item = i, !.seen = status[i]]
  <2>1. /\ courier' = [courier EXCEPT ![c] = n]
        /\ shared' = IF \E d \in Couriers : courier[d].item = i THEN shared \cup {i} ELSE shared
    BY <1>6 DEF PickUp
  <2>2. n \in Courier /\ n.pc = "loaded" /\ n.item = i /\ n.seen = status[i]
    <3>1. status[i] \in Statuses2
      BY <1>3
    <3>2. QED  BY <3>1 DEF Resting, Courier, Statuses2
  <2> HIDE DEF n
  <2>3. /\ courier' \in [Couriers -> Courier] /\ courier'[c] = n
        /\ \A d \in Couriers : d # c => courier'[d] = courier[d]
    BY <1>3, <2>1, <2>2
  <2>4. IF JobFree(i) THEN status[i] = "QUEUED" /\ mail[i] = 1 /\ NoneHolds(i) /\ i \notin sending
        ELSE status[i] = "FAILED"
    BY <1>1, <1>3, <1>6 DEF OneCarrier, Retried, Delivered
  <2>5. TypeOK'
    BY <1>1, <1>2, <1>3, <1>4, <2>1, <2>3 DEF TypeOK
  <2>6. \A d \in Couriers : CourierOK(d)'
    <3>1. CourierOK(c)'
      BY <1>1, <1>2, <1>3, <2>2, <2>3, <2>4 DEF CourierOK, JobFree
    <3>2. \A d \in Couriers : d # c => CourierOK(d)'
      BY <1>1, <1>2, <2>3 DEF DInv, CourierOK, JobFree
    <3>3. QED  BY <3>1, <3>2
  <2>7. ASSUME NEW k \in Items
        PROVE  OneCarrier(k)' /\ Retried(k)'
    <3>1. OneCarrier(k) /\ Retried(k)
      BY DEF DInv
    <3>2. CASE k # i
      BY <1>1, <1>2, <1>3, <1>4, <2>2, <2>3, <3>1, <3>2
         DEF OneCarrier, Retried, NoneHolds, OneHolds
    <3>3. CASE k = i
      BY <1>1, <1>2, <1>3, <1>4, <2>2, <2>3, <2>4, <3>1, <3>3
         DEF OneCarrier, Retried, NoneHolds, OneHolds
    <3>4. QED  BY <3>2, <3>3
  <2>8. ASSUME NEW k \in Items
        PROVE  Explained(k)'
    <3>1. Explained(k)
      BY DEF DInv
    <3>2. CASE k # i
      BY <1>1, <1>3, <2>1, <2>2, <2>3, <3>1, <3>2 DEF Explained, OneHolds, Accepted
    <3>3. CASE k = i
      <4> SUFFICES ASSUME i \notin shared', i \notin dropped
                   PROVE  Explained(k)'
        BY <1>1, <3>3 DEF Explained
      <4>1. NoneHolds(i) /\ i \notin shared
        BY <2>1 DEF NoneHolds
      <4>2. sent[i] = 0
        BY <1>3, <1>6, <3>1, <3>3, <4>1 DEF Explained, Accepted, NoneHolds, Delivered, TypeOK
      <4>3. QED  BY <1>1, <1>3, <2>2, <2>3, <3>3, <4>1, <4>2
                 DEF Explained, OneHolds, NoneHolds, Accepted
    <3>4. QED  BY <3>2, <3>3
  <2>9. ASSUME NEW k \in Items PROVE Bounded(k)'
    <3>1. Composing(k)' = Composing(k)
      BY <1>1 DEF Composing
    <3>2. /\ Cardinality(Loading(k)') \in Nat
          /\ mail'[k] + Cardinality(Loading(k)') <= mail[k] + Cardinality(Loading(k))
      <4> DEFINE is == n.pc = "loaded" /\ n.item = k
      <4>1. courier[c].pc # "loaded" /\ courier \in [Couriers -> Courier]
        BY <1>1, <1>3
      <4>2. /\ is => Cardinality(Loading(k)') = Cardinality(Loading(k)) + 1
            /\ ~is => Cardinality(Loading(k)') = Cardinality(Loading(k))
            /\ Cardinality(Loading(k)') \in Nat
        BY <2>1, <4>1, LoadCount
      <4>3. is <=> k = i
        BY <2>2
      <4>4. mail[k] \in Nat /\ mail'[k] \in Nat /\ (k = i => mail'[k] = mail[k] - 1)
            /\ (k # i => mail'[k] = mail[k])
        BY <1>3, <1>4
      <4> HIDE DEF is
      <4>5. QED  BY <4>2, <4>3, <4>4, FiniteSides
    <3>3. mail'[k] \in Nat
      BY <1>4
    <3>4. QED  BY <1>1, <1>2, <3>1, <3>2, <3>3, Counts DEF Bounded
  <2>10. FailureHasRetry'
    BY <1>1, <1>2, <2>3 DEF DInv, FailureHasRetry
  <2>11. QED  BY <1>2, <2>5, <2>6, <2>7, <2>8, <2>9, <2>10, StepParts
<1>7. QED  BY <1>5, <1>6

\* A courier at work, and its item.
LEMMA AtWork ==
  ASSUME DInv, NEW c \in Couriers, courier[c].pc # "idle"
  PROVE  /\ courier \in [Couriers -> Courier] /\ courier[c] \in Courier
         /\ courier[c].item \in Items /\ NoId \notin Items /\ CourierOK(c) /\ TypeOK
         /\ status \in [Items -> Statuses2] /\ sent \in [Items -> Nat]
         /\ mail \in [Items -> Nat]
BY JobAssumption DEF DInv, TypeOK, CourierOK, Courier, Items

LEMMA CallInv ==
  ASSUME DInv, NEW c \in Couriers, CallPlatform(c)
  PROVE  DInv'
<1> DEFINE i == courier[c].item
<1>1. /\ UNCHANGED jobVars /\ UNCHANGED <<status, sending, mail, dropped, shared>>
      /\ courier[c].pc = "loaded" /\ courier[c].pc # "idle"
  BY DEF CallPlatform
<1>2. /\ IInv' /\ JobTypeOK' /\ jobs' = jobs /\ runs' = runs
      /\ \A k \in Items : JobFree(k)' <=> JobFree(k)
      /\ \A k \in Items : RunningOn(k)' = RunningOn(k)
  BY <1>1, SameJobs DEF DInv
<1>3. /\ courier \in [Couriers -> Courier] /\ courier[c] \in Courier
      /\ i \in Items /\ NoId \notin Items /\ CourierOK(c) /\ TypeOK /\ sent \in [Items -> Nat]
      /\ mail \in [Items -> Nat]
  BY <1>1, AtWork
<1>4. PICK r \in {"SENT", "FAILED"} :
        /\ courier' = [courier EXCEPT ![c] = [courier[c] EXCEPT !.pc = "called", !.result = r]]
        /\ IF r = "SENT" THEN sent' = [sent EXCEPT ![i] = @ + 1] ELSE sent' = sent
  BY <1>3 DEF CallPlatform
<1> DEFINE n == [courier[c] EXCEPT !.pc = "called", !.result = r]
<1>5. n \in Courier /\ n.pc = "called" /\ n.item = i /\ n.seen = courier[c].seen /\ n.result = r
  BY <1>3 DEF Courier
<1>6. courier' = [courier EXCEPT ![c] = n]
  BY <1>4
<1> HIDE DEF n
<1>7. /\ courier' \in [Couriers -> Courier] /\ courier'[c] = n
      /\ \A d \in Couriers : d # c => courier'[d] = courier[d]
      /\ \A d \in Couriers : courier'[d].item = courier[d].item
  BY <1>3, <1>5, <1>6
<1>8. /\ sent' \in [Items -> Nat] /\ \A k \in Items : k # i => sent'[k] = sent[k]
      /\ sent'[i] = IF r = "SENT" THEN sent[i] + 1 ELSE sent[i]
  BY <1>3, <1>4
<1> HIDE DEF i
<1>9. TypeOK'
  BY <1>1, <1>2, <1>3, <1>7, <1>8 DEF TypeOK
<1>10. \A d \in Couriers : CourierOK(d)'
  <2>1. CourierOK(c)'
    BY <1>1, <1>2, <1>3, <1>5, <1>7 DEF CourierOK, JobFree, i
  <2>2. \A d \in Couriers : d # c => CourierOK(d)'
    BY <1>1, <1>2, <1>7 DEF DInv, CourierOK, JobFree
  <2>3. QED  BY <2>1, <2>2
<1>11. \A k \in Items : OneCarrier(k)' /\ Retried(k)'
  BY <1>1, <1>2, <1>7 DEF DInv, OneCarrier, Retried, NoneHolds, OneHolds
<1>12. ASSUME NEW k \in Items PROVE Explained(k)'
  <2>1. Explained(k)
    BY DEF DInv
  <2>2. CASE k # i
    BY <1>1, <1>5, <1>7, <1>8, <2>1, <2>2 DEF Explained, OneHolds, Accepted
  <2>3. CASE k = i
    <3> SUFFICES ASSUME i \notin shared, i \notin dropped
                 PROVE  Explained(k)'
      BY <1>1, <2>3 DEF Explained
    <3>1. sent[k] = 0 /\ OneHolds(k) /\ courier[c].item = k
      BY <1>1, <2>1, <2>3 DEF Explained, i
    <3>2. \A d \in Couriers : courier[d].item = k => d = c
      BY <3>1 DEF OneHolds
    <3>3. OneHolds(k)'
      BY <1>7, <3>1 DEF OneHolds
    <3>4. sent'[k] = 1 => Accepted(c, k)'
      BY <1>5, <1>7, <1>8, <2>3, <3>1 DEF Accepted
    <3>5. QED  BY <1>5, <1>7, <1>8, <2>3, <3>1, <3>2, <3>3, <3>4 DEF Explained
  <2>4. QED  BY <2>2, <2>3
<1>13. ASSUME NEW k \in Items PROVE Bounded(k)'
  <2>1. Composing(k)' = Composing(k)
    BY <1>1 DEF Composing
  <2>2. /\ Cardinality(Loading(k)') \in Nat /\ sent'[k] \in Nat
        /\ sent'[k] + Cardinality(Loading(k)') <= sent[k] + Cardinality(Loading(k))
    <3>1. k = i => Cardinality(Loading(k)') = Cardinality(Loading(k)) - 1
                   /\ Cardinality(Loading(k)') \in Nat
      BY <1>1, <1>3, <1>5, <1>6, LoadCount DEF i
    <3>2. k # i => Cardinality(Loading(k)') = Cardinality(Loading(k))
      BY <1>1, <1>3, <1>5, <1>6, LoadCount DEF i
    <3>3. QED  BY <1>3, <1>8, <3>1, <3>2, FiniteSides
  <2>3. QED  BY <1>1, <1>2, <2>1, <2>2, Counts DEF Bounded
<1>14. FailureHasRetry'
  BY <1>1, <1>2, <1>7 DEF DInv, FailureHasRetry
<1>15. QED  BY <1>2, <1>9, <1>10, <1>11, <1>12, <1>13, <1>14, StepParts

\* A courier that drops its item, after a call that may have been accepted.
LEMMA DropInv ==
  ASSUME DInv, NEW c \in Couriers, CallBreaks(c) \/ CourierDies(c)
  PROVE  DInv'
<1> DEFINE i == courier[c].item
<1>1. /\ UNCHANGED jobVars /\ UNCHANGED <<status, sending, mail, shared>>
      /\ courier[c].pc # "idle" /\ courier' = [courier EXCEPT ![c] = Resting]
      /\ dropped' = dropped \cup {i}
      /\ \/ sent' = sent
         \/ courier[c].pc = "loaded" /\ sent' = [sent EXCEPT ![i] = @ + 1]
  BY DEF CallBreaks, CourierDies, Rest
<1>2. /\ IInv' /\ JobTypeOK' /\ jobs' = jobs /\ runs' = runs
      /\ \A k \in Items : JobFree(k)' <=> JobFree(k)
      /\ \A k \in Items : RunningOn(k)' = RunningOn(k)
  BY <1>1, SameJobs DEF DInv
<1>3. /\ courier \in [Couriers -> Courier] /\ i \in Items /\ NoId \notin Items /\ CourierOK(c)
      /\ TypeOK /\ sent \in [Items -> Nat]
  BY <1>1, AtWork
<1>4. /\ courier' \in [Couriers -> Courier] /\ courier'[c].pc = "idle" /\ courier'[c].item = NoId
      /\ \A d \in Couriers : d # c => courier'[d] = courier[d]
  BY <1>1, <1>3, RestingFields
<1>5. /\ sent' \in [Items -> Nat] /\ \A k \in Items : k # i => sent'[k] = sent[k]
      /\ sent'[i] \in {sent[i], sent[i] + 1}
      /\ courier[c].pc # "loaded" => sent'[i] = sent[i]
  BY <1>1, <1>3
<1>6. i \in dropped' /\ dropped \subseteq dropped' /\ dropped' \subseteq dropped \cup {i}
  BY <1>1
<1> HIDE DEF i
<1>7. TypeOK'
  BY <1>1, <1>2, <1>3, <1>4, <1>5, <1>6 DEF TypeOK
<1>8. \A d \in Couriers : CourierOK(d)'
  <2>1. CourierOK(c)'
    BY <1>4 DEF CourierOK
  <2>2. \A d \in Couriers : d # c => CourierOK(d)'
    BY <1>1, <1>2, <1>4 DEF DInv, CourierOK, JobFree
  <2>3. QED  BY <2>1, <2>2
<1>9. \A k \in Items : OneCarrier(k)' /\ Retried(k)'
  <2>1. \A d \in Couriers, k \in Items : courier'[d].item = k => courier[d].item = k
    BY <1>3, <1>4
  <2>2. QED  BY <1>1, <1>2, <2>1 DEF DInv, OneCarrier, Retried, NoneHolds, OneHolds
<1>10. ASSUME NEW k \in Items PROVE Explained(k)'
  <2>1. Explained(k) /\ (k = i => Explained(k)')
    BY <1>6 DEF DInv, Explained
  <2>2. CASE k # i
    <3>1. courier[c].item # k /\ sent'[k] = sent[k]
      BY <1>5, <2>2 DEF i
    <3>2. QED  BY <1>1, <1>3, <1>4, <1>6, <2>1, <3>1 DEF Explained, OneHolds, Accepted
  <2>3. QED  BY <2>1, <2>2
<1>11. ASSUME NEW k \in Items PROVE Bounded(k)'
  <2>1. Composing(k)' = Composing(k)
    BY <1>1 DEF Composing
  <2>2. /\ Cardinality(Loading(k)') \in Nat /\ sent'[k] \in Nat
        /\ sent'[k] + Cardinality(Loading(k)') <= sent[k] + Cardinality(Loading(k))
    <3>0. Resting.pc # "loaded" /\ courier' = [courier EXCEPT ![c] = Resting]
      BY <1>1, RestingFields
    <3>1. courier[c].pc = "loaded" /\ k = i =>
            Cardinality(Loading(k)') = Cardinality(Loading(k)) - 1
            /\ Cardinality(Loading(k)') \in Nat
      BY <1>3, <3>0, LoadCount DEF i
    <3>2. ~(courier[c].pc = "loaded" /\ k = i) =>
            Cardinality(Loading(k)') = Cardinality(Loading(k))
      <4>1. ~(courier[c].pc = "loaded" /\ courier[c].item = k)
              => Cardinality(Loading(k)') = Cardinality(Loading(k))
        BY <1>3, <3>0, LoadSame
      <4>2. QED  BY <4>1 DEF i
    <3>3. QED  BY <1>3, <1>5, <3>1, <3>2, FiniteSides
  <2>3. QED  BY <1>1, <1>2, <2>1, <2>2, Counts DEF Bounded
<1>12. FailureHasRetry'
  <2>1. \A d \in Couriers, k \in Items \ {i} :
          courier[d].pc = "failed" /\ courier[d].item = k => courier'[d] = courier[d]
    BY <1>4 DEF i
  <2>2. QED  BY <1>1, <1>2, <1>6, <2>1 DEF DInv, FailureHasRetry
<1>13. QED  BY <1>2, <1>7, <1>8, <1>9, <1>10, <1>11, <1>12, StepParts

\* The status a courier stores: a sent item stays sent.
LEMMA StoredStatus ==
  ASSUME DInv, NEW c \in Couriers, Store(c)
  PROVE  LET i == courier[c].item IN
         /\ status' = [status EXCEPT ![i] = status'[i]] /\ status'[i] \in {"SENT", "FAILED"}
         /\ status[i] = "SENT" \/ courier[c].result = "SENT" => status'[i] = "SENT"
         /\ status[i] # "none" /\ (JobFree(i) => status[i] # "SENT")
<1> DEFINE i == courier[c].item  q == courier[c]
<1>1. q.pc = "called" /\ q.pc # "idle" /\ status' = [status EXCEPT ![i] = Outcome(q)]
  BY DEF Store
<1>2. /\ q \in Courier /\ i \in Items /\ CourierOK(c) /\ status \in [Items -> Statuses2]
      /\ Retried(i)
  BY <1>1, AtWork DEF DInv
<1>3. q.result \in {"SENT", "FAILED"}
  BY <1>1, <1>2 DEF CourierOK, Courier
<1>4. status'[i] = IF q.result = q.seen THEN status[i] ELSE q.result
  BY <1>1, <1>2 DEF Outcome, Written
<1>5. CASE JobFree(i)
  BY <1>1, <1>2, <1>3, <1>4, <1>5 DEF CourierOK
<1>6. CASE ~JobFree(i)
  BY <1>1, <1>2, <1>3, <1>4, <1>6 DEF CourierOK, Retried
<1>7. QED  BY <1>5, <1>6

LEMMA StoreInv ==
  ASSUME DInv, NEW c \in Couriers, Store(c)
  PROVE  DInv'
<1> DEFINE i == courier[c].item
           n == IF courier[c].result = "FAILED" THEN [courier[c] EXCEPT !.pc = "failed"]
                ELSE Resting
<1>1. /\ UNCHANGED jobVars /\ UNCHANGED <<sending, mail, sent, dropped, shared>>
      /\ courier[c].pc = "called" /\ courier[c].pc # "idle" /\ courier[c].pc # "loaded"
  BY DEF Store
<1>2. /\ IInv' /\ JobTypeOK' /\ jobs' = jobs /\ runs' = runs
      /\ \A k \in Items : JobFree(k)' <=> JobFree(k)
      /\ \A k \in Items : RunningOn(k)' = RunningOn(k)
  BY <1>1, SameJobs DEF DInv
<1>3. /\ courier \in [Couriers -> Courier] /\ courier[c] \in Courier /\ i \in Items
      /\ NoId \notin Items /\ CourierOK(c) /\ TypeOK /\ status \in [Items -> Statuses2]
      /\ OneCarrier(i) /\ Retried(i) /\ Explained(i)
  BY <1>1, AtWork DEF DInv
<1>4. courier' = [courier EXCEPT ![c] = n]
  BY <1>3 DEF Store, Rest
<1>5. /\ n \in Courier
      /\ IF courier[c].result = "FAILED" THEN n.pc = "failed" /\ n.item = i
         ELSE n.pc = "idle" /\ n.item = NoId
  BY <1>3, RestingFields DEF Courier
<1> HIDE DEF n
<1>6. /\ courier' \in [Couriers -> Courier] /\ courier'[c] = n
      /\ \A d \in Couriers : d # c => courier'[d] = courier[d]
      /\ n.pc # "idle" => n.item = i
      /\ \A d \in Couriers, k \in Items : courier'[d].item = k => courier[d].item = k
  BY <1>3, <1>4, <1>5
<1>7. PICK s \in {"SENT", "FAILED"} :
        /\ status' = [status EXCEPT ![i] = s]
        /\ status[i] = "SENT" \/ courier[c].result = "SENT" => s = "SENT"
        /\ status[i] # "none" /\ (JobFree(i) => status[i] # "SENT")
  BY StoredStatus
<1>8. /\ status'[i] = s /\ \A k \in Items : k # i => status'[k] = status[k]
      /\ status' \in [Items -> Statuses2]
  BY <1>3, <1>7 DEF Statuses2
<1>9. courier[c].result \in {"SENT", "FAILED"} /\ courier[c].item = i
  BY <1>1, <1>3 DEF CourierOK, Courier
<1> HIDE DEF i
<1>10. TypeOK'
  BY <1>1, <1>2, <1>3, <1>6, <1>8 DEF TypeOK
<1>11. \A d \in Couriers : CourierOK(d)'
  <2>1. CourierOK(c)'
    BY <1>3, <1>5, <1>6, <1>8 DEF CourierOK
  <2>2. ASSUME NEW d \in Couriers, d # c
        PROVE  CourierOK(d)'
    <3>1. CourierOK(d) /\ courier'[d] = courier[d]
      BY <1>6, <2>2 DEF DInv
    <3>2. CASE courier[d].item # i
      <4>1. status'[courier[d].item] = status[courier[d].item] \/ courier[d].pc = "idle"
        BY <1>3, <1>8, <3>1, <3>2 DEF CourierOK, TypeOK, Courier
      <4>2. QED  BY <1>2, <3>1, <4>1 DEF CourierOK, JobFree
    <3>3. CASE courier[d].item = i
      <4>1. ~JobFree(i)
        BY <1>3, <1>9, <2>2, <3>3 DEF OneCarrier, OneHolds
      <4>2. QED  BY <1>2, <1>8, <3>1, <3>3, <4>1 DEF CourierOK, JobFree
    <3>4. QED  BY <3>2, <3>3
  <2>3. QED  BY <2>1, <2>2
<1>12. ASSUME NEW k \in Items PROVE OneCarrier(k)' /\ Retried(k)'
  <2>1. OneCarrier(k) /\ Retried(k)
    BY DEF DInv
  <2>2. CASE k # i
    BY <1>1, <1>2, <1>6, <1>8, <2>1, <2>2 DEF OneCarrier, Retried, NoneHolds, OneHolds
  <2>3. CASE k = i
    <3>1. Retried(k)'
      BY <1>1, <1>2, <1>8, <2>1, <2>3 DEF Retried
    <3>2. ASSUME JobFree(k) PROVE OneCarrier(k)'
      <4>1. OneHolds(k) /\ k \notin sending /\ mail[k] = 0
        <5>1. ~NoneHolds(k) /\ mail[k] \in Nat
          BY <1>3, <1>9, <2>3 DEF NoneHolds, TypeOK
        <5>2. QED  BY <2>1, <3>2, <5>1 DEF OneCarrier
      <4>2. OneHolds(k)'
        BY <1>6, <4>1 DEF OneHolds
      <4>3. status'[k] = "SENT" => NoneHolds(k)'
        <5>1. \A d \in Couriers : courier[d].item = k => d = c
          BY <1>9, <2>3, <4>1 DEF OneHolds
        <5>2. status'[k] = "SENT" => courier'[c].item = NoId
          <6>1. status[k] = "QUEUED" /\ courier[c].seen = "QUEUED"
            BY <1>1, <1>3, <1>9, <2>3, <3>2 DEF CourierOK
          <6>2. status'[k] = courier[c].result
            BY <1>3, <1>9, <2>3, <6>1 DEF Store, Outcome, Written
          <6>3. QED  BY <1>5, <1>6, <6>2
        <5>3. QED  BY <1>3, <1>6, <5>1, <5>2 DEF NoneHolds
      <4>4. QED  BY <1>1, <1>3, <1>8, <2>3, <4>1, <4>2, <4>3 DEF OneCarrier
    <3>3. QED  BY <1>2, <3>1, <3>2 DEF OneCarrier
  <2>4. QED  BY <2>2, <2>3
<1>13. ASSUME NEW k \in Items PROVE Explained(k)'
  <2>1. Explained(k)
    BY DEF DInv
  <2>2. CASE k # i
    BY <1>1, <1>3, <1>5, <1>6, <1>8, <1>9, <2>1, <2>2 DEF Explained, OneHolds, Accepted
  <2>3. CASE k = i
    <3> SUFFICES ASSUME k \notin shared, k \notin dropped
                 PROVE  Explained(k)'
      BY <1>1 DEF Explained
    <3>1. OneHolds(k) /\ OneHolds(k)' /\ sent[k] <= 1
      BY <1>6, <2>1 DEF Explained, OneHolds
    <3>2. \A d \in Couriers : courier[d].item = k => d = c
      BY <1>9, <2>3, <3>1 DEF OneHolds
    <3>3. \A d \in Couriers : courier'[d].item = k => courier'[d].pc # "loaded"
      BY <1>5, <1>6, <3>2
    <3>4. sent[k] = 1 => status'[k] = "SENT"
      BY <1>7, <1>8, <2>1, <2>3, <3>2 DEF Explained, Accepted, i
    <3>5. QED  BY <1>1, <3>1, <3>3, <3>4 DEF Explained
  <2>4. QED  BY <2>2, <2>3
<1>14. ASSUME NEW k \in Items PROVE Bounded(k)'
  <2>1. Composing(k)' = Composing(k)
    BY <1>1, <1>7, <1>8 DEF Composing, i
  <2>2. Cardinality(Loading(k)') = Cardinality(Loading(k))
    <3>1. n.pc # "loaded" /\ courier[c].pc # "loaded"
      BY <1>1, <1>5
    <3>2. QED  BY <1>3, <1>4, <3>1, LoadSame
  <2>3. QED  BY <1>1, <1>2, <2>1, <2>2, Counts DEF Bounded
<1>15. FailureHasRetry'
  <2> SUFFICES ASSUME NEW k \in Items, status'[k] = "FAILED"
               PROVE  \/ jobs'[k].status # "none"
                      \/ \E d \in Couriers : courier'[d].pc = "failed" /\ courier'[d].item = k
                      \/ k \in dropped'
    BY DEF FailureHasRetry
  <2>1. CASE k = i
    BY <1>5, <1>6, <1>7, <1>8, <1>9, <2>1 DEF i
  <2>2. CASE k # i
    BY <1>1, <1>2, <1>6, <1>8, <2>2 DEF DInv, FailureHasRetry
  <2>3. QED  BY <2>1, <2>2
<1>16. QED  BY <1>2, <1>10, <1>11, <1>12, <1>13, <1>14, <1>15, StepParts

LEMMA RetryInv ==
  ASSUME DInv, IInv', NEW c \in Couriers, ScheduleRetry(c)
  PROVE  DInv'
<1> DEFINE i == courier[c].item
<1>1. /\ UNCHANGED <<queue, batch, exec, runs, lost, overlapped, status, sending, mail, sent, dropped, shared>>
      /\ courier[c].pc = "failed" /\ courier[c].pc # "idle"
      /\ courier' = [courier EXCEPT ![c] = Resting]
      /\ RetryJob(i)
  BY DEF ScheduleRetry, Rest
<1>2. /\ courier \in [Couriers -> Courier] /\ i \in Items /\ NoId \notin Items /\ CourierOK(c)
      /\ TypeOK /\ OneCarrier(i) /\ Retried(i) /\ JobTypeOK' /\ courier[c].item = i
  BY <1>1, AtWork DEF DInv, IInv
<1>3. /\ \A k \in Items : k # i => (jobs'[k].status = "none" <=> jobs[k].status = "none")
      /\ jobs'[i].status # "none"
  <2>1. CASE Create(i, "due")
    <3>1. [NoJob EXCEPT !.status = "PENDING", !.scheduled = "due"].status = "PENDING"
      BY DEF NoJob
    <3>2. QED  BY <1>2, <2>1, <3>1 DEF Create, Items, IInv, DInv, JobTypeOK
  <2>2. CASE jobs[i].status # "none" /\ UNCHANGED jobs
    BY <2>2
  <2>3. QED  BY <1>1, <2>1, <2>2 DEF RetryJob
<1>4. /\ courier' \in [Couriers -> Courier] /\ courier'[c].pc = "idle" /\ courier'[c].item = NoId
      /\ \A d \in Couriers : d # c => courier'[d] = courier[d]
  BY <1>1, <1>2, RestingFields
<1>5. \A d \in Couriers, k \in Items : courier'[d].item = k => courier[d].item = k /\ d # c
  BY <1>2, <1>4
<1> HIDE DEF i
<1>6. TypeOK'
  BY <1>1, <1>2, <1>4 DEF TypeOK
<1>7. \A d \in Couriers : CourierOK(d)'
  <2>1. CourierOK(c)'
    BY <1>4 DEF CourierOK
  <2>2. ASSUME NEW d \in Couriers, d # c
        PROVE  CourierOK(d)'
    <3>1. CourierOK(d) /\ courier'[d] = courier[d]
      BY <1>4, <2>2 DEF DInv
    <3>2. CASE courier[d].item # i
      <4>1. courier[d].pc = "idle"
            \/ (jobs'[courier[d].item].status = "none" <=> jobs[courier[d].item].status = "none")
        BY <1>2, <1>3, <3>1, <3>2 DEF CourierOK, TypeOK, Courier
      <4>2. QED  BY <1>1, <3>1, <4>1 DEF CourierOK, JobFree
    <3>3. CASE courier[d].item = i
      <4>1. ~JobFree(i)
        BY <1>2, <2>2, <3>3 DEF OneCarrier, OneHolds
      <4>2. QED  BY <1>1, <1>3, <3>1, <3>3, <4>1 DEF CourierOK, JobFree
    <3>4. QED  BY <3>2, <3>3
  <2>3. QED  BY <2>1, <2>2
<1>8. ASSUME NEW k \in Items PROVE OneCarrier(k)' /\ Retried(k)' /\ Explained(k)'
  <2>1. OneCarrier(k) /\ Retried(k) /\ Explained(k)
    BY DEF DInv
  <2>2. OneCarrier(k)'
    BY <1>1, <1>3, <1>5, <2>1 DEF OneCarrier, NoneHolds, OneHolds, JobFree
  <2>3. Retried(k)'
    <3>1. status[i] \in {"SENT", "FAILED"} /\ i \notin sending
      BY <1>1, <1>2 DEF CourierOK, OneCarrier, Retried
    <3>2. QED  BY <1>1, <1>3, <2>1, <3>1 DEF Retried, JobFree
  <2>4. Explained(k)'
    <3>1. \A d \in Couriers : Accepted(d, k) => Accepted(d, k)'
      BY <1>1, <1>4 DEF Accepted
    <3>2. \A d \in Couriers : courier'[d].item = k => courier'[d] = courier[d]
      BY <1>4, <1>5
    <3>3. QED  BY <1>1, <1>5, <2>1, <3>1, <3>2 DEF Explained, OneHolds
  <2>5. QED  BY <2>2, <2>3, <2>4
<1>9. ASSUME NEW k \in Items PROVE Bounded(k)'
  <2>1. Composing(k)' = Composing(k) /\ RunningOn(k)' = RunningOn(k)
    BY <1>1 DEF Composing, RunningOn
  <2>2. Cardinality(Loading(k)') = Cardinality(Loading(k))
    <3>1. Resting.pc # "loaded" /\ courier[c].pc # "loaded"
      BY <1>1, RestingFields
    <3>2. QED  BY <1>1, <1>2, <3>1, LoadCount
  <2>3. QED  BY <1>1, <2>1, <2>2, Counts DEF Bounded
<1>10. FailureHasRetry'
  <2>1. \A d \in Couriers, k \in Items \ {i} :
          courier[d].pc = "failed" /\ courier[d].item = k => courier'[d] = courier[d]
    BY <1>2, <1>4
  <2>2. QED  BY <1>1, <1>3, <2>1 DEF DInv, FailureHasRetry
<1>11. QED  BY <1>6, <1>7, <1>8, <1>9, <1>10, StepParts

--------------------------------------------------------------------------------
(***************************************************************************)
(* The handler of the retry job.                                           *)
(***************************************************************************)
LEMMA HandleRetryInv ==
  ASSUME DInv, IInv', NEW w \in Workers, HandleRetry(w)
  PROVE  DInv'
<1> DEFINE j == exec[w].job
<1>1. /\ UNCHANGED <<status, sending, courier, sent, dropped, shared>>
      /\ UNCHANGED <<jobs, queue, batch, runs, lost, overlapped>>
      /\ exec[w].pc = "running"
      /\ mail' = mail \/ mail' = [mail EXCEPT ![j] = @ + 1]
  BY DEF HandleRetry, Handle, Deposit
<1>2. /\ exec \in [Workers -> Exec] /\ j \in Items /\ ~JobFree(j) /\ TypeOK /\ JobTypeOK'
      /\ mail \in [Items -> Nat]
  BY <1>1 DEF DInv, TypeOK, IInv, JobTypeOK, ExecKnown, Free, Known, JobFree, Items
<1>3. /\ \A v \in Workers : v # w => exec'[v] = exec[v]
      /\ exec'[w].pc # "running"
  <2>1. PICK end \in {"returned", "raised"} : exec' = [exec EXCEPT ![w].pc = end]
    BY DEF HandleRetry, Handle
  <2>2. QED  BY <1>2, <2>1 DEF Exec
<1>4. /\ mail' \in [Items -> Nat] /\ \A k \in Items : k # j => mail'[k] = mail[k]
      /\ mail'[j] <= mail[j] + 1
  BY <1>1, <1>2
<1>5. ASSUME NEW k
      PROVE  RunningOn(k)' = RunningOn(k) \ {w} /\ (w \in RunningOn(k) <=> k = j)
  BY <1>1, <1>3 DEF RunningOn
<1> HIDE DEF j
<1>6. TypeOK'
  BY <1>1, <1>2, <1>4 DEF TypeOK
<1>7. \A d \in Couriers : CourierOK(d)'
  BY <1>1 DEF DInv, CourierOK, JobFree
<1>8. \A k \in Items : OneCarrier(k)' /\ Retried(k)' /\ Explained(k)'
  BY <1>1, <1>2, <1>4 DEF DInv, OneCarrier, Retried, Explained, NoneHolds, OneHolds, Accepted,
                          JobFree
<1>9. ASSUME NEW k \in Items PROVE Bounded(k)'
  <2>1. Composing(k)' = Composing(k) /\ Loading(k)' = Loading(k)
    BY <1>1 DEF Composing, Loading
  <2>2. mail'[k] + Cardinality(RunningOn(k)') <= mail[k] + Cardinality(RunningOn(k))
    <3>1. Cardinality(RunningOn(k)') =
            IF k = j THEN Cardinality(RunningOn(k)) - 1 ELSE Cardinality(RunningOn(k))
      <4>1. /\ IsFiniteSet(RunningOn(k)) /\ RunningOn(k)' = RunningOn(k) \ {w}
            /\ w \in RunningOn(k) <=> k = j
        BY <1>5, FiniteSides
      <4>2. Cardinality(RunningOn(k) \ {w}) =
              IF w \in RunningOn(k) THEN Cardinality(RunningOn(k)) - 1
              ELSE Cardinality(RunningOn(k))
        BY <4>1, FS_RemoveElement
      <4>3. QED  BY <4>1, <4>2
    <3>2. mail[k] \in Nat /\ mail'[k] \in Nat
      BY <1>2, <1>4
    <3>3. QED  BY <1>4, <3>1, <3>2, FiniteSides
  <2>3. mail'[k] \in Nat
    BY <1>4
  <2>4. QED  BY <1>1, <2>1, <2>2, <2>3, Counts, RunnersFinite DEF Bounded
<1>10. FailureHasRetry'
  BY <1>1 DEF DInv, FailureHasRetry
<1>11. QED  BY <1>6, <1>7, <1>8, <1>9, <1>10, StepParts

--------------------------------------------------------------------------------
LEMMA DStep == DInv /\ [Next]_vars => DInv'
<1> SUFFICES ASSUME DInv, [Next]_vars PROVE DInv'
  OBVIOUS
<1>1. IInv /\ IInv'
  BY JobStep, Step DEF DInv
<1>2. ASSUME NEW i \in Items, Compose(i) \/ Submit(i) \/ SubmitFails(i)
      PROVE  DInv'
  BY <1>2, RequestInv
<1>3. ASSUME NEW c \in Couriers,
             \/ \E i \in Items : PickUp(c, i)
             \/ CallPlatform(c) \/ CallBreaks(c) \/ Store(c) \/ ScheduleRetry(c) \/ CourierDies(c)
      PROVE  DInv'
  BY <1>1, <1>3, PickUpInv, CallInv, DropInv, StoreInv, RetryInv
<1>4. ASSUME NEW w \in Workers, HandleRetry(w)
      PROVE  DInv'
  BY <1>1, <1>4, HandleRetryInv
<1>5. CASE Machinery /\ UNCHANGED deliveryVars
  BY <1>1, <1>5, MachineryJobs, MachineryInv
<1>6. CASE UNCHANGED vars
  <2>1. UNCHANGED jobVars /\ UNCHANGED deliveryVars
    BY <1>6 DEF vars
  <2>2. /\ \A i \in Jobs : JobFree(i)' <=> JobFree(i)
        /\ \A w \in Workers : exec'[w] = exec[w]
        /\ runs' = runs /\ JobTypeOK
    BY <1>1, <2>1 DEF jobVars, JobFree, IInv
  <2>3. Balanced
    BY <2>2, FewerRunners
  <2>4. QED  BY <1>1, <2>1, <2>2, <2>3, MachineryInv
<1>7. QED  BY <1>2, <1>3, <1>4, <1>5, <1>6 DEF Next

LEMMA DInductive == Spec => []DInv
  BY DInitInv, DStep, PTL DEF Spec

(***************************************************************************)
(* Theorems.                                                               *)
(***************************************************************************)
\* Delivery with its requests and couriers leaves the jobs what SyncJobs says they are,
\* so that what is proved of SyncJobs holds under it.
THEOREM UsesTheJobs == Spec => JobSpec
<1>1. Init => JobInit
  BY DEF Init
<1>2. DInv /\ [Next]_vars => [JobNext]_jobVars
  BY JobStep DEF DInv
<1>3. QED  BY <1>1, <1>2, DInductive, PTL DEF Spec, JobSpec

\* The items, the delivery queue and the couriers keep their types.
THEOREM DeliveryTypeCorrect == Spec => []TypeOK
<1>1. DInv => TypeOK
  BY DEF DInv
<1>2. QED  BY <1>1, DInductive, PTL

\* update_delivery_status: a late failure does not turn a sent item back.
THEOREM SentStaysSent == Spec => SentIsFinal
<1>1. DInv /\ [Next]_vars => [\A i \in Items : status[i] = "SENT" => status'[i] = "SENT"]_vars
  <2> SUFFICES ASSUME DInv, Next, NEW i \in Items, status[i] = "SENT"
               PROVE  status'[i] = "SENT"
    OBVIOUS
  <2>1. status \in [Items -> Statuses2]
    BY DEF DInv, TypeOK
  <2>2. ASSUME NEW k \in Items, Compose(k) \/ Submit(k) \/ SubmitFails(k)
        PROVE  status'[i] = "SENT"
    BY <2>1, <2>2 DEF Compose, Submit, SubmitFails
  <2>3. ASSUME NEW c \in Couriers, Store(c)
        PROVE  status'[i] = "SENT"
    <3>1. courier[c].item \in Items
      BY <2>3, AtWork DEF Store
    <3>2. QED  BY <2>1, <2>3, <3>1, StoredStatus
  <2>4. ASSUME NEW c \in Couriers,
               \/ \E k \in Items : PickUp(c, k)
               \/ CallPlatform(c) \/ CallBreaks(c) \/ ScheduleRetry(c) \/ CourierDies(c)
        PROVE  status' = status
    BY <2>4 DEF PickUp, CallPlatform, CallBreaks, ScheduleRetry, CourierDies
  <2>5. ASSUME NEW w \in Workers, HandleRetry(w)
        PROVE  status' = status
    BY <2>5 DEF HandleRetry
  <2>6. CASE Machinery /\ UNCHANGED deliveryVars
    BY <2>6 DEF deliveryVars
  <2>7. QED  BY <2>2, <2>3, <2>4, <2>5, <2>6 DEF Next
<1>2. QED  BY <1>1, DInductive, PTL DEF Spec, SentIsFinal

\* A failed message or reply has its retry_failed_send job, or is about to, or its
\* courier died first.
THEOREM FailureHasRetryAlways == Spec => []FailureHasRetry
<1>1. DInv => FailureHasRetry
  BY DEF DInv
<1>2. QED  BY <1>1, DInductive, PTL

\* deliver_* calls the platform once for the item and once for each run of its retry
\* job, however many workers and couriers there are.
THEOREM SendsBoundedAlways == Spec => []SendsBounded
<1>1. DInv => SendsBounded
  <2> SUFFICES ASSUME DInv, NEW i \in Items PROVE sent[i] <= 1 + runs[i]
    BY DEF SendsBounded
  <2>1. QED  BY Counts
<1>2. QED  BY <1>1, DInductive, PTL

\* The platform gets an item twice only after two couriers held it at once or one ended
\* between the call and the stored outcome.
THEOREM DuplicateExplainedAlways == Spec => []DuplicateExplained
<1>1. DInv => DuplicateExplained
  <2> SUFFICES ASSUME DInv, NEW i \in Items, sent[i] > 1 PROVE i \in shared \cup dropped
    BY DEF DuplicateExplained
  <2>1. sent[i] \in Nat /\ Explained(i)
    BY DEF DInv, TypeOK
  <2>2. QED  BY <2>1 DEF Explained
<1>2. QED  BY <1>1, DInductive, PTL

\* mark_running counts no run that did not start, also for the retry jobs.
THEOREM RetriesNeverOvercount == Spec => []AttemptsCounted
  BY UsesTheJobs, AttemptsNeverOvercount, PTL

--------------------------------------------------------------------------------
(***************************************************************************)
(*                        A POST AND ITS JOBS                              *)
(***************************************************************************)

LEMMA PostJobsJobs ==
  ASSUME PostTable
  PROVE  [PostJobsNext]_postJobsVars => [JobNext]_jobVars
<1> SUFFICES ASSUME [PostJobsNext]_postJobsVars PROVE [JobNext]_jobVars
  OBVIOUS
<1>1. ASSUME NEW j \in Jobs, NEW when \in {"due", "future"}, EnsureJob(j, when)
      PROVE  [JobNext]_jobVars
  BY <1>1 DEF EnsureJob, JobNext, jobVars
<1>2. ScheduledPost \in Jobs /\ RetryPost \in Jobs
  BY DEF PostTable
<1>3. ASSUME NEW q \in Requests, CreateScheduleJob(q)
      PROVE  [JobNext]_jobVars
  BY <1>1, <1>2, <1>3 DEF CreateScheduleJob
<1>4. CASE ScanPosts
  BY <1>1, <1>2, <1>4 DEF ScanPosts
<1>5. ASSUME NEW p \in Publishers, CreateRetryJob(p)
      PROVE  [JobNext]_jobVars
  BY <1>1, <1>2, <1>5 DEF CreateRetryJob
<1>6. ASSUME NEW w \in Workers, HandlePost(w)
      PROVE  [JobNext]_jobVars
  BY <1>6 DEF HandlePost, JobNext
<1>7. CASE PostMoves \/ PostFails \/ UNCHANGED postJobsVars
  BY <1>7 DEF PostMoves, PostFails, postJobsVars
<1>8. CASE Machinery
  BY <1>8 DEF JobNext
<1>9. QED  BY <1>3, <1>4, <1>5, <1>6, <1>7, <1>8 DEF PostJobsNext

\* The table of a post's jobs is a table of SyncJobs, so what is proved of those holds.
THEOREM PostsUseTheJobs ==
  ASSUME PostTable
  PROVE  PostJobsSpec => JobSpec
<1>1. PostJobsInit => JobInit
  BY DEF PostJobsInit
<1>2. QED  BY <1>1, PostJobsJobs, PTL DEF PostJobsSpec, JobSpec

\* What a create_job does to the book.
LEMMA EnsuredBook ==
  ASSUME IInv, NEW j \in Jobs, NEW when \in {"due", "future"}, EnsureJob(j, when)
  PROVE  Post!EnsureJob(j, when)
<1>1. CASE Create(j, when)
  <2>1. book[j] = "none" /\ book' = [book EXCEPT ![j] = when]
    BY <1>1, CreateTable DEF IInv
  <2>2. QED  BY <2>1 DEF EnsureJob, Post!EnsureJob, Post!Add
<1>2. CASE jobs[j].status # "none" /\ UNCHANGED jobs
  <2>1. book[j] # "none"
    BY <1>2 DEF book, IInv, JobTypeOK, Job
  <2>2. book' = book
    BY <1>2 DEF book
  <2>3. QED  BY <2>1, <2>2 DEF EnsureJob, Post!EnsureJob
<1>3. QED  BY <1>1, <1>2 DEF EnsureJob

\* What the machinery does to the book: only time ripens it.
LEMMA MachineryBook ==
  ASSUME IInv, Machinery
  PROVE  book' = book \/ \E j \in Jobs : book[j] = "future" /\ book' = [book EXCEPT ![j] = "due"]
<1>1. ASSUME NEW j \in Jobs, Elapse(j)
      PROVE  book' = book \/ (book[j] = "future" /\ book' = [book EXCEPT ![j] = "due"])
  BY <1>1, ElapseTable DEF IInv
<1>2. ASSUME NEW w \in Workers, MarkRunning(w)
      PROVE  book' = book
  BY <1>2, MarkTable
<1>3. ASSUME NEW w \in Workers, Finish(w)
      PROVE  book' = book
  BY <1>3, FinishTable
<1>4. ASSUME UNCHANGED jobs PROVE book' = book
  BY <1>4 DEF book
<1>5. ASSUME NEW j \in Jobs, Send(j) \/ Take(j)
      PROVE  UNCHANGED jobs
  BY <1>5 DEF Send, Take, Receive
<1>6. ASSUME NEW w \in Workers, Crash(w)
      PROVE  UNCHANGED jobs
  BY <1>6 DEF Crash
<1>7. CASE Scan \/ DispatchFails
  BY <1>4, <1>7 DEF Scan, DispatchFails
<1>8. QED  BY <1>1, <1>2, <1>3, <1>4, <1>5, <1>6, <1>7 DEF Machinery

\* A handler runs when the book says that its job is due.
LEMMA HandledIsDue ==
  ASSUME IInv, NEW w \in Workers, Handle(w)
  PROVE  exec[w].job \in Jobs /\ book[exec[w].job] = "due" /\ book' = book
<1>1. exec[w].job \in Jobs /\ Known(exec[w].job)
  BY DEF IInv, ExecKnown, Handle, Free
<1>2. book[exec[w].job] = "due"
  BY <1>1 DEF book, Known
<1>3. book' = book
  BY DEF book, Handle
<1>4. QED  BY <1>1, <1>2, <1>3

\* Each step over the table is a step over the book.
LEMMA PostBookStep ==
  ASSUME PostTable, IInv, [PostJobsNext]_postJobsVars
  PROVE  [Post!Next]_(Post!vars)
<1>0. ScheduledPost \in Jobs /\ RetryPost \in Jobs
  BY DEF PostTable
<1>1. ASSUME NEW q \in Requests, CreateScheduleJob(q)
      PROVE  Post!CreateScheduleJob(q)
  BY <1>0, <1>1, EnsuredBook DEF CreateScheduleJob, Post!CreateScheduleJob
<1>2. CASE ScanPosts
  <2>1. Post!ScanPosts
    BY <1>0, <1>2, EnsuredBook DEF ScanPosts, Post!ScanPosts, postVars, Post!postVars
  <2>2. QED  BY <2>1 DEF Post!Next
<1>3. ASSUME NEW p \in Publishers, CreateRetryJob(p)
      PROVE  Post!CreateRetryJob(p)
  BY <1>0, <1>3, EnsuredBook DEF CreateRetryJob, Post!CreateRetryJob
<1>4. ASSUME NEW w \in Workers, HandlePost(w)
      PROVE  exec[w].job \in Jobs /\ Post!HandlePost(exec[w].job)
  <2>1. exec[w].job \in Jobs /\ book[exec[w].job] = "due" /\ book' = book
    BY <1>4, HandledIsDue DEF HandlePost
  <2>2. Post!Run(exec[w].job)
    BY <1>4, <2>1 DEF HandlePost, Post!Run
  <2>3. Post!AddTask \/ ("broker" \in PostFaults /\ UNCHANGED tasks)
    BY <1>4 DEF HandlePost, Sent
  <2>4. QED  BY <1>4, <2>1, <2>2, <2>3 DEF HandlePost, Post!HandlePost
<1>5. CASE PostMoves
  <2>1. ASSUME NEW q \in Requests,
               Post!LoadPost(q) \/ Post!CommitPost(q) \/ Post!DeletePost(q) \/ Post!SubmitPublish(q)
        PROVE  Post!Next
    BY <2>1 DEF Post!Next
  <2>2. ASSUME NEW p \in Publishers, Post!TakeTask(p) \/ Post!CallFacebook(p) \/ Post!ApplyResult(p)
        PROVE  Post!Next
    BY <2>2 DEF Post!Next, Post!Publish
  <2>3. CASE Post!CreatePost \/ Post!TimePasses
    BY <2>3 DEF Post!Next
  <2>4. QED  BY <1>5, <2>1, <2>2, <2>3 DEF PostMoves
<1>6. CASE PostFails
  BY <1>6 DEF PostFails, Post!Next, Post!Publish
<1>7. CASE Machinery /\ UNCHANGED <<postVars, handled, stalled>>
  <2>1. CASE book' = book
    BY <1>7, <2>1 DEF postVars, Post!vars, Post!bookVars, Post!postVars
  <2>2. ASSUME NEW j \in Jobs, book[j] = "future" /\ book' = [book EXCEPT ![j] = "due"]
        PROVE  Post!Next
    <3>1. Post!Ripen(j) /\ UNCHANGED Post!postVars
      BY <1>7, <2>2 DEF Post!Ripen, postVars, Post!postVars
    <3>2. QED  BY <3>1 DEF Post!Next
  <2>3. QED  BY <1>7, <2>1, <2>2, MachineryBook
<1>8. CASE UNCHANGED postJobsVars
  BY <1>8 DEF postJobsVars, postVars, jobVars, book, Post!vars, Post!bookVars, Post!postVars
<1>9. CASE \E q \in Requests : CreateScheduleJob(q)
  BY <1>1, <1>9 DEF Post!Next
<1>10. CASE \E p \in Publishers : CreateRetryJob(p)
  BY <1>3, <1>10 DEF Post!Next, Post!Publish
<1>11. CASE \E w \in Workers : HandlePost(w)
  BY <1>4, <1>11 DEF Post!Next
<1>12. QED
  BY <1>2, <1>5, <1>6, <1>7, <1>8, <1>9, <1>10, <1>11 DEF PostJobsNext

\* A post whose jobs are rows of sync_jobs takes only the steps that Posts allows.
THEOREM PostsRunOverTheTable ==
  ASSUME PostTable
  PROVE  PostJobsSpec => PostsOverBook
<1>1. PostJobsInit => Post!Init
  BY DEF PostJobsInit
<1>2. PostJobsSpec => []IInv
  BY PostsUseTheJobs, Inductive, PTL
<1>3. IInv /\ [PostJobsNext]_postJobsVars => [Post!Next]_(Post!vars)
  BY PostBookStep
<1>4. QED  BY <1>1, <1>2, <1>3, PTL DEF PostJobsSpec, PostsOverBook, Post!Spec

--------------------------------------------------------------------------------
(***************************************************************************)
(* A scheduled post is carried on.  The invariant says who carries it.     *)
(***************************************************************************)

\* What a request has loaded is written back only as its operation says.
RequestsOK ==
  \A q \in Requests :
    LET u == req[q].update IN
    /\ req[q].op \in {"schedule", "publish"} <=> u.status = "SCHEDULED"
    /\ u.status = "keep" => u.when = "keep"

\* A publisher knows of the status only whether it was FAILED, and has its answer.
PublishersKnow ==
  \A p \in Publishers :
    /\ pub[p].pc \in {"loaded", "called"} => pub[p].seen.status \in {"SCHEDULED", "FAILED"}
    /\ pub[p].pc = "called" => pub[p].result \in {"PUBLISHED", "FAILED"}

PostTypes ==
  /\ post \in Post!Post
  /\ req \in [Requests -> Post!Request]
  /\ tasks \in Nat
  /\ pub \in [Publishers -> Post!Publisher]
  /\ stalled \in BOOLEAN

\* The job has still to send its task: it is open or given up, and no worker has sent
\* the task and has yet to store that.
JobCarries ==
  /\ jobs[ScheduledPost].status \notin {"none", "COMPLETED"}
  /\ \A w \in Workers : exec[w].pc = "returned" => exec[w].job # ScheduledPost

\* Who carries a scheduled post on.  A publisher that saw it FAILED does not: when
\* Facebook refuses, it stores nothing.
Carried ==
  \/ \E q \in Requests : req[q].op \in {"job", "task"}
  \/ tasks > 0
  \/ \E p \in Publishers : pub[p].pc \in {"loaded", "called"} /\ pub[p].seen.status = "SCHEDULED"
  \/ jobs[ScheduledPost].status = "none" /\ post.when # "null"
  \/ JobCarries

CarriedState == PostTypes /\ RequestsOK /\ PublishersKnow

CarriedInv ==
  /\ CarriedState
  /\ post.status = "SCHEDULED" => Carried \/ stalled
--------------------------------------------------------------------------------
(***************************************************************************)
(* The rows and records that the steps write.                              *)
(***************************************************************************)
LEMMA PostRows ==
  /\ Post!NoRequest \in Post!Request /\ Post!NoRequest.op = "none"
  /\ Post!NoRequest.update = Post!Keep /\ Post!Keep.status = "keep" /\ Post!Keep.when = "keep"
  /\ Post!NoPost \in Post!Post /\ Post!NoPost.status = "none"
  /\ Post!Resting \in Post!Publisher /\ Post!Resting.pc = "idle"
<1>1. /\ Post!NoRequest \in Post!Request /\ Post!NoRequest.op = "none"
      /\ Post!NoRequest.update = Post!Keep /\ Post!Keep.status = "keep" /\ Post!Keep.when = "keep"
  BY DEF Post!NoRequest, Post!Keep, Post!Update, Post!Request
<1>2. Post!NoPost \in Post!Post /\ Post!NoPost.status = "none"
  BY DEF Post!NoPost, Post!Post
<1>3. Post!Resting \in Post!Publisher /\ Post!Resting.pc = "idle"
  BY <1>2 DEF Post!Resting, Post!Publisher
<1>4. QED  BY <1>1, <1>2, <1>3

\* The row after an UPDATE.
LEMMA StoredRow ==
  ASSUME post \in Post!Post, NEW u \in Post!Update
  PROVE  LET new == Post!Stored(u) IN
         /\ new \in Post!Post
         /\ new.status = IF u.status = "keep" THEN post.status ELSE u.status
         /\ new.when = IF u.when = "keep" THEN post.when ELSE u.when
  BY DEF Post!Stored, Post!Post, Post!Update

\* Only schedule and publish make a post SCHEDULED, and they are never allowed on a
\* post that is; who leaves the status alone leaves the time alone.
LEMMA UpdatesSay ==
  ASSUME NEW op \in Post!Ops, NEW r \in Post!Post, Post!Allowed(op, r),
         NEW u \in Post!Updates(op, r)
  PROVE  /\ u \in Post!Update
         /\ op \in {"schedule", "publish"} <=> u.status = "SCHEDULED"
         /\ u.status = "keep" => u.when = "keep"
<1>1. CASE op = "update"
  BY <1>1 DEF Post!Updates, Post!Allowed, Post!Changed, Post!Keep, Post!Update, Post!Post
<1>2. CASE op = "delete"
  BY <1>2 DEF Post!Updates, Post!Keep, Post!Update
<1>3. CASE op = "approve"
  BY <1>3 DEF Post!Updates, Post!Allowed, Post!Changed, Post!Keep, Post!Update, Post!Post, Post!PostStatuses
<1>4. CASE op = "reject"
  BY <1>4 DEF Post!Updates, Post!Allowed, Post!Changed, Post!Keep, Post!Update, Post!Post, Post!PostStatuses
<1>5. CASE op = "schedule"
  BY <1>5 DEF Post!Updates, Post!Allowed, Post!PublishReady, Post!Changed, Post!Keep, Post!Update,
              Post!Post, Post!PostStatuses
<1>6. CASE op = "publish"
  BY <1>6 DEF Post!Updates, Post!Allowed, Post!PublishReady, Post!Changed, Post!Keep, Post!Update,
              Post!Post, Post!PostStatuses
<1>7. CASE op = "generate"
  <2>1. PICK a \in {"required", "free"} :
          u = [[Post!Keep EXCEPT !.status = Post!Changed("DRAFT", r.status)]
                 EXCEPT !.approval = Post!Changed(a, r.approval)]
    BY <1>7 DEF Post!Updates
  <2>2. QED  BY <1>7, <2>1 DEF Post!Changed, Post!Keep, Post!Update, Post!Post, Post!PostStatuses
<1>8. QED  BY <1>1, <1>2, <1>3, <1>4, <1>5, <1>6, <1>7 DEF Post!Ops

\* apply_publish_result leaves a post SCHEDULED only when the task saw it FAILED.
LEMMA ResultSays ==
  ASSUME NEW h \in Post!Publisher, h.result \in {"PUBLISHED", "FAILED"},
         h.seen.status \in {"SCHEDULED", "FAILED"}
  PROVE  LET u == Post!Result(h) IN
         /\ u \in Post!Update /\ u.status # "SCHEDULED"
         /\ u.status = "keep" => h.seen.status = "FAILED" /\ u.when = "keep"
<1> DEFINE s == Post!Changed(h.result, h.seen.status)
           w == IF h.result = "PUBLISHED" THEN Post!Changed("null", h.seen.when) ELSE "keep"
<1>1. /\ s \in {"PUBLISHED", "FAILED", "keep"} /\ w \in {"null", "keep"}
      /\ s = "keep" => h.seen.status = "FAILED" /\ w = "keep"
  BY DEF Post!Changed
<1> HIDE DEF s, w
<1>2. /\ [Post!Keep EXCEPT !.status = s, !.when = w] \in Post!Update
      /\ [Post!Keep EXCEPT !.status = s, !.when = w].status = s
      /\ [Post!Keep EXCEPT !.status = s, !.when = w].when = w
  BY <1>1 DEF Post!Keep, Post!Update, Post!PostStatuses
<1>3. Post!Result(h) = [Post!Keep EXCEPT !.status = s, !.when = w]
  BY DEF Post!Result, s, w
<1>4. QED  BY <1>1, <1>2, <1>3

--------------------------------------------------------------------------------
(***************************************************************************)
(* The table.                                                              *)
(***************************************************************************)
\* The machinery neither creates the job nor ends its carrying.
LEMMA MachineryCarries ==
  ASSUME PostTable, IInv, Machinery
  PROVE  /\ jobs[ScheduledPost].status = "none" => jobs'[ScheduledPost].status = "none"
         /\ JobCarries => JobCarries'
<1> DEFINE s == ScheduledPost
<1>0. s \in Jobs /\ jobs \in [Jobs -> Job] /\ exec \in [Workers -> Exec]
  BY DEF PostTable, IInv, JobTypeOK
<1> HIDE DEF s
<1> SUFFICES /\ jobs[s].status = "none" => jobs'[s].status = "none"
             /\ jobs[s].status \notin {"none", "COMPLETED"}
                  /\ (\A w \in Workers : exec[w].pc = "returned" => exec[w].job # s)
                => /\ jobs'[s].status \notin {"none", "COMPLETED"}
                   /\ \A w \in Workers : exec'[w].pc = "returned" => exec'[w].job # s
  BY DEF JobCarries, s
<1>1. ASSUME NEW j \in Jobs, Elapse(j)
      PROVE  jobs'[s].status = jobs[s].status /\ exec' = exec
  BY <1>0, <1>1 DEF Elapse, Job
<1>2. ASSUME NEW j \in Jobs, Send(j)
      PROVE  jobs' = jobs /\ exec' = exec
  BY <1>2 DEF Send
<1>3. ASSUME NEW w \in Workers, NEW j \in Jobs, Receive(w, j)
      PROVE  jobs' = jobs /\ \A v \in Workers : exec'[v].pc = "returned" => exec'[v] = exec[v]
  BY <1>0, <1>3 DEF Receive
<1>4. CASE Scan \/ DispatchFails
  BY <1>4 DEF Scan, DispatchFails
<1>5. ASSUME NEW w \in Workers, exec' = [exec EXCEPT ![w] = Waiting]
      PROVE  \A v \in Workers : exec'[v].pc = "returned" => exec'[v] = exec[v]
  BY <1>0, <1>5, WaitingType
<1>6. ASSUME NEW w \in Workers, Crash(w)
      PROVE  jobs' = jobs /\ \A v \in Workers : exec'[v].pc = "returned" => exec'[v] = exec[v]
  BY <1>5, <1>6 DEF Crash, Idle
<1>7. ASSUME NEW w \in Workers, MarkRunning(w)
      PROVE  /\ jobs[s].status = "none" => jobs'[s].status = "none"
             /\ jobs'[s].status \in {jobs[s].status, "RUNNING"}
             /\ \A v \in Workers : exec'[v].pc = "returned" => exec'[v] = exec[v]
  <2> DEFINE j == exec[w].job
             r == RunningRow(exec[w].row, jobs[j])
  <2>1. /\ j \in Jobs /\ Known(j) /\ r \in Job
        /\ jobs' = [jobs EXCEPT ![j] = r]
        /\ exec' = [exec EXCEPT ![w] = [exec[w] EXCEPT !.pc = "running", !.row = r]]
    BY <1>7, MarkTable
  <2>2. r.status \in {jobs[j].status, "RUNNING"}
    BY <1>0, <2>1 DEF RunningRow, Written, Job
  <2> HIDE DEF r, j
  <2>3. \A v \in Workers : exec'[v].pc = "returned" => exec'[v] = exec[v]
    BY <1>0, <2>1 DEF Exec
  <2>4. QED  BY <1>0, <2>1, <2>2, <2>3 DEF Known
<1>8. ASSUME NEW w \in Workers, Fail(w)
      PROVE  /\ jobs[s].status = "none" => jobs'[s].status = "none"
             /\ jobs'[s].status \in {jobs[s].status, "FAILED", "RETRY_SCHEDULED"}
             /\ \A v \in Workers : exec'[v].pc = "returned" => exec'[v] = exec[v]
  <2> DEFINE j == exec[w].job
             r == FailedRow(exec[w].row, jobs[j])
  <2>1. j \in Jobs /\ Known(j) /\ jobs' = [jobs EXCEPT ![j] = r]
    BY <1>0, <1>8 DEF Fail, IInv, ExecKnown, Free
  <2>2. r.status \in {jobs[j].status, "FAILED", "RETRY_SCHEDULED"}
    BY <1>0, <2>1 DEF FailedRow, Written, Job
  <2> HIDE DEF r, j
  <2>3. QED  BY <1>0, <1>5, <1>8, <2>1, <2>2 DEF Fail, Idle, Known
<1>9. ASSUME NEW w \in Workers, Complete(w)
      PROVE  /\ exec[w].pc = "returned" /\ exec[w].job \in Jobs
             /\ exec[w].job # s => jobs'[s] = jobs[s]
             /\ jobs[s].status = "none" => exec[w].job # s
             /\ \A v \in Workers : exec'[v].pc = "returned" => exec'[v] = exec[v]
  BY <1>0, <1>5, <1>9 DEF Complete, Idle, IInv, ExecKnown, Known, Free
<1>10. ASSUME NEW w \in Workers, Complete(w)
       PROVE  /\ jobs[s].status = "none" => jobs'[s].status = "none"
              /\ jobs[s].status \notin {"none", "COMPLETED"}
                   /\ (\A v \in Workers : exec[v].pc = "returned" => exec[v].job # s)
                 => /\ jobs'[s].status \notin {"none", "COMPLETED"}
                    /\ \A v \in Workers : exec'[v].pc = "returned" => exec'[v].job # s
  BY <1>9, <1>10
<1>11. QED
  BY <1>1, <1>2, <1>3, <1>4, <1>6, <1>7, <1>8, <1>10 DEF Machinery, Take, Finish

\* create_job under the key of the job.
LEMMA EnsureCarries ==
  ASSUME PostTable, IInv, NEW when \in {"due", "future"}, EnsureJob(ScheduledPost, when),
         jobs[ScheduledPost].status = "none"
  PROVE  JobCarries'
<1>1. ScheduledPost \in Jobs /\ jobs \in [Jobs -> Job]
  BY DEF PostTable, IInv, JobTypeOK
<1>2. jobs' = [jobs EXCEPT ![ScheduledPost] = [NoJob EXCEPT !.status = "PENDING", !.scheduled = when]]
  BY DEF EnsureJob, Create
<1>3. jobs'[ScheduledPost].status = "PENDING"
  BY <1>1, <1>2 DEF NoJob
<1>4. \A w \in Workers : exec[w].pc = "returned" => exec[w].job # ScheduledPost
  BY DEF IInv, ExecKnown, Known, Free
<1>5. QED  BY <1>3, <1>4 DEF JobCarries, EnsureJob

\* A step that leaves the row and the workers alone.
LEMMA SameJobCarries ==
  ASSUME UNCHANGED exec, jobs'[ScheduledPost] = jobs[ScheduledPost]
  PROVE  JobCarries' <=> JobCarries
  BY DEF JobCarries

--------------------------------------------------------------------------------
(***************************************************************************)
(* Each step.                                                              *)
(***************************************************************************)
\* The request is done.
LEMMA EndState ==
  ASSUME PostTypes, RequestsOK, NEW q \in Requests, Post!End(q)
  PROVE  /\ req' \in [Requests -> Post!Request]
         /\ RequestsOK'
         /\ \A r \in Requests : r # q => req'[r] = req[r]
<1>1. req' = [req EXCEPT ![q] = Post!NoRequest] /\ req \in [Requests -> Post!Request]
  BY DEF Post!End, PostTypes
<1>2. \A r \in Requests : req'[r] = IF r = q THEN Post!NoRequest ELSE req[r]
  BY <1>1
<1>3. QED  BY <1>1, <1>2, PostRows DEF RequestsOK

\* The publisher is done.
LEMMA RestState ==
  ASSUME PostTypes, PublishersKnow, NEW p \in Publishers, Post!Rest(p)
  PROVE  /\ pub' \in [Publishers -> Post!Publisher]
         /\ PublishersKnow'
         /\ \A r \in Publishers : r # p => pub'[r] = pub[r]
<1>1. pub' = [pub EXCEPT ![p] = Post!Resting] /\ pub \in [Publishers -> Post!Publisher]
  BY DEF Post!Rest, PostTypes
<1>2. \A r \in Publishers : pub'[r] = IF r = p THEN Post!Resting ELSE pub[r]
  BY <1>1
<1>3. QED  BY <1>1, <1>2, PostRows DEF PublishersKnow

LEMMA CarriedInit ==
  ASSUME PostJobsInit
  PROVE  CarriedInv
<1>1. /\ post = Post!NoPost /\ req = [r \in Requests |-> Post!NoRequest] /\ tasks = 0
      /\ pub = [p \in Publishers |-> Post!Resting] /\ stalled = FALSE
  BY DEF PostJobsInit, Post!Init
<1>2. PostTypes
  BY <1>1, PostRows DEF PostTypes
<1>3. RequestsOK
  BY <1>1, PostRows DEF RequestsOK
<1>4. PublishersKnow
  BY <1>1, PostRows DEF PublishersKnow
<1>5. QED  BY <1>1, <1>2, <1>3, <1>4, PostRows DEF CarriedInv, CarriedState

LEMMA MachineryKeepsCarried ==
  ASSUME PostTable, IInv, CarriedInv, Machinery, UNCHANGED <<postVars, handled, stalled>>
  PROVE  CarriedInv'
<1>1. UNCHANGED <<post, req, tasks, pub, stalled>>
  BY DEF postVars
<1>2. CarriedState'
  BY <1>1 DEF CarriedInv, CarriedState, PostTypes, RequestsOK, PublishersKnow
<1>3. Carried => Carried'
  BY <1>1, MachineryCarries DEF Carried
<1>4. QED  BY <1>1, <1>2, <1>3 DEF CarriedInv

\* The handler that returns has sent the task; the one that raises leaves the job open.
LEMMA HandleKeepsCarried ==
  ASSUME PostTable, IInv, CarriedInv, NEW w \in Workers, HandlePost(w)
  PROVE  CarriedInv'
<1>1. UNCHANGED <<jobs, post, req, pub, stalled>>
  BY DEF HandlePost, Handle
<1>2. tasks \in Nat /\ exec \in [Workers -> Exec]
  BY DEF CarriedInv, CarriedState, PostTypes, IInv, JobTypeOK
<1>3. tasks' \in Nat
  BY <1>2 DEF HandlePost, Sent, Post!AddTask
<1>4. CarriedState'
  BY <1>1, <1>3 DEF CarriedInv, CarriedState, PostTypes, RequestsOK, PublishersKnow
<1>5. Carried => Carried'
  <2>1. CASE Post!AddTask
    <3>1. tasks' > 0
      BY <1>2, <2>1 DEF Post!AddTask
    <3>2. QED  BY <3>1 DEF Carried
  <2>2. CASE exec'[w].pc = "raised" /\ UNCHANGED tasks
    <3>1. PICK end \in {"returned", "raised"} : exec' = [exec EXCEPT ![w].pc = end]
      BY DEF HandlePost, Handle
    <3>2. \A v \in Workers : exec'[v].pc = "returned" => exec'[v] = exec[v]
      BY <1>2, <2>2, <3>1 DEF Exec
    <3>3. JobCarries => JobCarries'
      BY <1>1, <3>2 DEF JobCarries
    <3>4. QED  BY <1>1, <2>2, <3>3 DEF Carried
  <2>3. QED  BY <2>1, <2>2 DEF HandlePost, Sent
<1>6. QED  BY <1>1, <1>4, <1>5 DEF CarriedInv

\* A job that is created carries the post on, and one that was there is an excuse.
LEMMA CreateKeepsCarried ==
  ASSUME PostTable, IInv, CarriedInv, NEW q \in Requests, CreateScheduleJob(q)
  PROVE  CarriedInv'
<1>1. /\ EnsureJob(ScheduledPost, "future") /\ Post!End(q)
      /\ stalled' = (stalled \/ jobs[ScheduledPost].status # "none")
      /\ UNCHANGED <<post, tasks, pub>>
  BY DEF CreateScheduleJob
<1>2. stalled' \in BOOLEAN
  BY <1>1
<1>3. CarriedState'
  BY <1>1, <1>2, EndState DEF CarriedInv, CarriedState, PostTypes, PublishersKnow
<1>4. Carried' \/ stalled'
  BY <1>1, EnsureCarries DEF Carried
<1>5. QED  BY <1>3, <1>4 DEF CarriedInv

LEMMA ScanKeepsCarried ==
  ASSUME PostTable, IInv, CarriedInv, ScanPosts
  PROVE  CarriedInv'
<1>1. UNCHANGED <<post, req, tasks, pub, stalled>> /\ EnsureJob(ScheduledPost, "due")
  BY DEF ScanPosts, postVars
<1>2. CarriedState'
  BY <1>1 DEF CarriedInv, CarriedState, PostTypes, RequestsOK, PublishersKnow
<1>3. CASE jobs[ScheduledPost].status = "none"
  BY <1>1, <1>2, <1>3, EnsureCarries DEF CarriedInv, Carried
<1>4. CASE jobs[ScheduledPost].status # "none"
  <2>1. UNCHANGED <<jobs, exec>>
    BY <1>1, <1>4 DEF EnsureJob, Create
  <2>2. QED  BY <1>1, <1>2, <2>1, SameJobCarries DEF CarriedInv, Carried
<1>5. QED  BY <1>3, <1>4

LEMMA RetryKeepsCarried ==
  ASSUME PostTable, IInv, CarriedInv, NEW p \in Publishers, CreateRetryJob(p)
  PROVE  CarriedInv'
<1>1. /\ pub[p].pc = "failed" /\ EnsureJob(RetryPost, "due") /\ Post!Rest(p)
      /\ UNCHANGED <<post, req, tasks, stalled>>
  BY DEF CreateRetryJob
<1>2. CarriedState'
  BY <1>1, RestState DEF CarriedInv, CarriedState, PostTypes, RequestsOK
<1>3. jobs'[ScheduledPost] = jobs[ScheduledPost] /\ UNCHANGED exec
  BY <1>1 DEF EnsureJob, Create, PostTable, IInv, JobTypeOK
<1>4. Carried => Carried'
  <2>1. \A r \in Publishers : r # p => pub'[r] = pub[r]
    BY <1>1, RestState DEF CarriedInv, CarriedState
  <2>2. QED  BY <1>1, <1>3, <2>1, SameJobCarries DEF Carried
<1>5. QED  BY <1>1, <1>2, <1>4 DEF CarriedInv

LEMMA LoadKeepsCarried ==
  ASSUME CarriedInv, NEW q \in Requests, Post!LoadPost(q), UNCHANGED <<jobVars, stalled>>
  PROVE  CarriedInv'
<1>1. PICK op \in Post!Ops : /\ Post!Allowed(op, post)
                             /\ \E u \in Post!Updates(op, post) :
                                  req' = [req EXCEPT ![q] = [op |-> op, update |-> u]]
  BY DEF Post!LoadPost
<1>2. PICK u \in Post!Updates(op, post) : req' = [req EXCEPT ![q] = [op |-> op, update |-> u]]
  BY <1>1
<1>3. /\ u \in Post!Update /\ (op \in {"schedule", "publish"} <=> u.status = "SCHEDULED")
      /\ u.status = "keep" => u.when = "keep"
  BY <1>1, UpdatesSay DEF CarriedInv, CarriedState, PostTypes
<1>4. req[q].op = "none" /\ UNCHANGED <<post, tasks, pub, stalled, jobs, exec>>
  BY DEF Post!LoadPost, jobVars
<1>5. req \in [Requests -> Post!Request] /\ req' \in [Requests -> Post!Request]
  BY <1>2, <1>3 DEF CarriedInv, CarriedState, PostTypes, Post!Request
<1>6. \A r \in Requests : req'[r] = IF r = q THEN [op |-> op, update |-> u] ELSE req[r]
  BY <1>2, <1>5
<1>7. CarriedState'
  BY <1>3, <1>4, <1>5, <1>6 DEF CarriedInv, CarriedState, PostTypes, RequestsOK, PublishersKnow
<1>8. Carried => Carried'
  BY <1>4, <1>6, SameJobCarries DEF Carried
<1>9. QED  BY <1>4, <1>7, <1>8 DEF CarriedInv

\* The commit of schedule or publish has its job or task still to create; no other
\* commit leaves a post SCHEDULED and takes its time away.
LEMMA CommitKeepsCarried ==
  ASSUME CarriedInv, NEW q \in Requests, Post!CommitPost(q), UNCHANGED <<jobVars, stalled>>
  PROVE  CarriedInv'
<1> DEFINE u == req[q].update
           op == req[q].op
<1>1. /\ op \in Post!Ops /\ post' = Post!Stored(u) /\ req' = [req EXCEPT ![q] = Post!After(op)]
      /\ UNCHANGED <<tasks, pub, stalled, jobs, exec>>
  BY DEF Post!CommitPost, jobVars
<1>2. /\ post \in Post!Post /\ req \in [Requests -> Post!Request] /\ u \in Post!Update
  BY DEF CarriedInv, CarriedState, PostTypes, Post!Request
<1>3. /\ post' \in Post!Post
      /\ post'.status = IF u.status = "keep" THEN post.status ELSE u.status
      /\ post'.when = IF u.when = "keep" THEN post.when ELSE u.when
  BY <1>1, <1>2, StoredRow
<1>4. /\ op \in {"schedule", "publish"} <=> u.status = "SCHEDULED"
      /\ u.status = "keep" => u.when = "keep"
  BY DEF CarriedInv, CarriedState, RequestsOK
<1> HIDE DEF u
<1>5. /\ Post!After(op) \in Post!Request
      /\ op \in {"schedule", "publish"} <=> Post!After(op).op \in {"job", "task"}
      /\ Post!After(op).update = Post!Keep /\ Post!After(op).op \in {"job", "task", "none"}
  BY DEF Post!After, Post!NoRequest, Post!Keep, Post!Update, Post!Request
<1>6. op \notin {"job", "task"}
  BY <1>1 DEF Post!Ops
<1> HIDE DEF op
<1>7. \A r \in Requests : req'[r] = IF r = q THEN Post!After(op) ELSE req[r]
  BY <1>1, <1>2
<1>8. req' \in [Requests -> Post!Request]
  BY <1>1, <1>2, <1>5
<1>9. CarriedState'
  BY <1>1, <1>3, <1>5, <1>7, <1>8, PostRows
     DEF CarriedInv, CarriedState, PostTypes, RequestsOK, PublishersKnow
<1>10. CASE op \in {"schedule", "publish"}
  BY <1>5, <1>7, <1>9, <1>10 DEF CarriedInv, Carried
<1>11. CASE op \notin {"schedule", "publish"}
  <2>1. post'.status = "SCHEDULED" => post.status = "SCHEDULED" /\ post'.when = post.when
    BY <1>3, <1>4, <1>11
  <2>2. \A r \in Requests : req[r].op \in {"job", "task"} => req'[r] = req[r]
    BY <1>6, <1>7 DEF op
  <2>3. post'.status = "SCHEDULED" /\ Carried => Carried'
    BY <1>1, <2>1, <2>2, SameJobCarries DEF Carried
  <2>4. QED  BY <1>1, <1>9, <2>1, <2>3 DEF CarriedInv
<1>12. QED  BY <1>10, <1>11

LEMMA DeleteKeepsCarried ==
  ASSUME CarriedInv, NEW q \in Requests, Post!DeletePost(q), UNCHANGED <<jobVars, stalled>>
  PROVE  CarriedInv'
<1>1. post' = [Post!NoPost EXCEPT !.status = "deleted"] /\ Post!End(q) /\ UNCHANGED <<tasks, pub, stalled>>
  BY DEF Post!DeletePost
<1>2. post' \in Post!Post /\ post'.status = "deleted"
  BY <1>1 DEF Post!NoPost, Post!Post
<1>3. CarriedState'
  BY <1>1, <1>2, EndState DEF CarriedInv, CarriedState, PostTypes, PublishersKnow
<1>4. QED  BY <1>2, <1>3 DEF CarriedInv

LEMMA SubmitKeepsCarried ==
  ASSUME CarriedInv, NEW q \in Requests, Post!SubmitPublish(q), UNCHANGED <<jobVars, stalled>>
  PROVE  CarriedInv'
<1>1. Post!AddTask /\ Post!End(q) /\ UNCHANGED <<post, pub, stalled>>
  BY DEF Post!SubmitPublish
<1>2. tasks' \in Nat /\ tasks' > 0
  BY <1>1 DEF Post!AddTask, CarriedInv, CarriedState, PostTypes
<1>3. CarriedState'
  BY <1>1, <1>2, EndState DEF CarriedInv, CarriedState, PostTypes, PublishersKnow
<1>4. QED  BY <1>2, <1>3 DEF CarriedInv, Carried

\* A request that fails before its job or task is an excuse; any other carried nothing.
LEMMA FailKeepsCarried ==
  ASSUME CarriedInv, NEW q \in Requests, Post!RequestFails(q), UNCHANGED jobVars,
         stalled' = (stalled \/ req[q].op \in {"job", "task"})
  PROVE  CarriedInv'
<1>1. Post!End(q) /\ UNCHANGED <<post, tasks, pub, jobs, exec>>
  BY DEF Post!RequestFails, jobVars
<1>2. stalled' \in BOOLEAN
  OBVIOUS
<1>3. CarriedState'
  BY <1>1, <1>2, EndState DEF CarriedInv, CarriedState, PostTypes, PublishersKnow
<1>4. \A r \in Requests : r # q => req'[r] = req[r]
  BY <1>1, EndState DEF CarriedInv, CarriedState
<1>5. Carried => Carried' \/ stalled'
  BY <1>1, <1>4, SameJobCarries DEF Carried
<1>6. QED  BY <1>1, <1>3, <1>5 DEF CarriedInv

LEMMA TakeKeepsCarried ==
  ASSUME CarriedInv, NEW p \in Publishers, Post!TakeTask(p), UNCHANGED <<jobVars, stalled>>
  PROVE  CarriedInv'
<1> DEFINE h == [Post!Resting EXCEPT !.pc = "loaded", !.seen = Post!Looked(post)]
<1>1. /\ tasks > 0 /\ tasks' = tasks - 1 /\ pub[p].pc = "idle"
      /\ IF Post!Publishable(post) THEN pub' = [pub EXCEPT ![p] = h] ELSE UNCHANGED pub
      /\ UNCHANGED <<post, req, stalled, jobs, exec>>
  BY DEF Post!TakeTask, jobVars
<1>2. post \in Post!Post /\ tasks \in Nat /\ pub \in [Publishers -> Post!Publisher]
  BY DEF CarriedInv, CarriedState, PostTypes
<1>3. /\ h \in Post!Publisher /\ h.pc = "loaded" /\ h.seen.status \in {"SCHEDULED", "FAILED"}
      /\ post.status = "SCHEDULED" => h.seen.status = "SCHEDULED"
  BY DEF Post!Resting, Post!Looked, Post!NoPost, Post!Post, Post!PostStatuses, Post!Publisher
<1> HIDE DEF h
<1>4. tasks' \in Nat /\ pub' \in [Publishers -> Post!Publisher]
  BY <1>1, <1>2, <1>3
<1>5. CarriedState'
  BY <1>1, <1>2, <1>3, <1>4 DEF CarriedInv, CarriedState, PostTypes, RequestsOK, PublishersKnow
<1>6. post.status = "SCHEDULED" => Carried'
  <2>1. post.status = "SCHEDULED" => Post!Publishable(post)
    BY DEF Post!Publishable, Post!PostStatuses
  <2>2. post.status = "SCHEDULED" => pub'[p] = h
    BY <1>1, <1>2, <2>1
  <2>3. QED  BY <1>3, <2>2 DEF Carried
<1>7. QED  BY <1>1, <1>5, <1>6 DEF CarriedInv

LEMMA CallKeepsCarried ==
  ASSUME CarriedInv, NEW p \in Publishers, Post!CallFacebook(p), UNCHANGED <<jobVars, stalled>>
  PROVE  CarriedInv'
<1>1. PICK res \in {"PUBLISHED", "FAILED"} :
        pub' = [pub EXCEPT ![p].pc = "called", ![p].result = res]
  BY DEF Post!CallFacebook
<1>2. pub[p].pc = "loaded" /\ UNCHANGED <<post, req, tasks, stalled, jobs, exec>>
  BY DEF Post!CallFacebook, jobVars
<1>3. pub \in [Publishers -> Post!Publisher]
  BY DEF CarriedInv, CarriedState, PostTypes
<1>4. /\ pub' \in [Publishers -> Post!Publisher]
      /\ \A r \in Publishers : r # p => pub'[r] = pub[r]
      /\ pub'[p].pc = "called" /\ pub'[p].result = res /\ pub'[p].seen = pub[p].seen
  BY <1>1, <1>3 DEF Post!Publisher
<1>5. CarriedState'
  BY <1>2, <1>4 DEF CarriedInv, CarriedState, PostTypes, RequestsOK, PublishersKnow
<1>6. Carried => Carried'
  BY <1>2, <1>4, SameJobCarries DEF Carried
<1>7. QED  BY <1>2, <1>5, <1>6 DEF CarriedInv

\* A publisher that carries a post stores an answer, so that it is no longer SCHEDULED.
LEMMA ApplyKeepsCarried ==
  ASSUME CarriedInv, NEW p \in Publishers, Post!ApplyResult(p), UNCHANGED <<jobVars, stalled>>
  PROVE  CarriedInv'
<1> DEFINE u == Post!Result(pub[p])
<1>1. /\ pub[p].pc = "called" /\ post' = Post!Stored(u)
      /\ IF pub[p].result = "FAILED" THEN pub' = [pub EXCEPT ![p].pc = "failed"] ELSE Post!Rest(p)
      /\ UNCHANGED <<req, tasks, stalled, jobs, exec>>
  BY DEF Post!ApplyResult, jobVars
<1>2. post \in Post!Post /\ pub \in [Publishers -> Post!Publisher]
  BY DEF CarriedInv, CarriedState, PostTypes
<1>3. /\ u \in Post!Update /\ u.status # "SCHEDULED"
      /\ u.status = "keep" => pub[p].seen.status = "FAILED" /\ u.when = "keep"
  BY <1>1, <1>2, ResultSays DEF CarriedInv, CarriedState, PublishersKnow
<1> HIDE DEF u
<1>4. /\ post' \in Post!Post
      /\ post'.status = IF u.status = "keep" THEN post.status ELSE u.status
      /\ post'.when = IF u.when = "keep" THEN post.when ELSE u.when
  BY <1>1, <1>2, <1>3, StoredRow
<1>5. /\ pub' \in [Publishers -> Post!Publisher] /\ PublishersKnow'
      /\ \A r \in Publishers : r # p => pub'[r] = pub[r]
  <2>1. CASE pub' = [pub EXCEPT ![p].pc = "failed"]
    BY <1>2, <2>1 DEF Post!Publisher, CarriedInv, CarriedState, PublishersKnow
  <2>2. CASE Post!Rest(p)
    BY <2>2, RestState DEF CarriedInv, CarriedState
  <2>3. QED  BY <1>1, <2>1, <2>2
<1>6. CarriedState'
  BY <1>1, <1>4, <1>5 DEF CarriedInv, CarriedState, PostTypes, RequestsOK
<1>7. ASSUME post'.status = "SCHEDULED"
      PROVE  /\ post.status = "SCHEDULED" /\ post'.when = post.when
             /\ pub[p].seen.status = "FAILED"
  BY <1>3, <1>4, <1>7
<1>8. post'.status = "SCHEDULED" /\ Carried => Carried'
  BY <1>1, <1>5, <1>7, SameJobCarries DEF Carried
<1>9. QED  BY <1>1, <1>6, <1>7, <1>8 DEF CarriedInv

LEMMA BreakKeepsCarried ==
  ASSUME CarriedInv, NEW p \in Publishers, Post!CallBreaks(p) \/ Post!PublisherDies(p), stalled' = TRUE
  PROVE  CarriedInv'
<1>1. Post!Rest(p) /\ UNCHANGED <<post, req, tasks>>
  BY DEF Post!CallBreaks, Post!PublisherDies
<1>2. CarriedState'
  BY <1>1, RestState DEF CarriedInv, CarriedState, PostTypes, RequestsOK
<1>3. QED  BY <1>2 DEF CarriedInv

LEMMA RowKeepsCarried ==
  ASSUME CarriedInv, Post!CreatePost \/ Post!TimePasses, UNCHANGED <<jobVars, stalled>>
  PROVE  CarriedInv'
<1>1. UNCHANGED <<req, tasks, pub, stalled, jobs, exec>>
  BY DEF Post!CreatePost, Post!TimePasses, jobVars
<1>2. /\ post' \in Post!Post
      /\ post'.status = "SCHEDULED" => /\ post.status = "SCHEDULED"
                                       /\ post.when # "null" => post'.when # "null"
  BY DEF CarriedInv, CarriedState, PostTypes, Post!CreatePost, Post!TimePasses, Post!Post, Post!PostStatuses
<1>3. CarriedState'
  BY <1>1, <1>2 DEF CarriedInv, CarriedState, PostTypes, RequestsOK, PublishersKnow
<1>4. post'.status = "SCHEDULED" /\ Carried => Carried'
  BY <1>1, <1>2, SameJobCarries DEF Carried
<1>5. QED  BY <1>1, <1>2, <1>3, <1>4 DEF CarriedInv

LEMMA CarriedStep ==
  ASSUME PostTable, IInv, CarriedInv, [PostJobsNext]_postJobsVars
  PROVE  CarriedInv'
<1>1. CASE PostMoves
  <2>1. UNCHANGED <<jobVars, stalled>>
    BY <1>1 DEF PostMoves
  <2>2. QED
    BY <1>1, <2>1, RowKeepsCarried, LoadKeepsCarried, CommitKeepsCarried, DeleteKeepsCarried,
       SubmitKeepsCarried, TakeKeepsCarried, CallKeepsCarried, ApplyKeepsCarried
       DEF PostMoves
<1>2. CASE PostFails
  <2>1. UNCHANGED jobVars
    BY <1>2 DEF PostFails
  <2>2. QED  BY <1>2, <2>1, FailKeepsCarried, BreakKeepsCarried DEF PostFails
<1>3. CASE UNCHANGED postJobsVars
  <2>1. UNCHANGED <<post, req, tasks, pub, stalled, jobs, exec>>
    BY <1>3 DEF postJobsVars, postVars, jobVars
  <2>2. CarriedState'
    BY <2>1 DEF CarriedInv, CarriedState, PostTypes, RequestsOK, PublishersKnow
  <2>3. QED  BY <2>1, <2>2, SameJobCarries DEF CarriedInv, Carried
<1>4. QED
  BY <1>1, <1>2, <1>3, CreateKeepsCarried, ScanKeepsCarried, RetryKeepsCarried, HandleKeepsCarried,
     MachineryKeepsCarried
     DEF PostJobsNext

\* A scheduled post is never forgotten without one of the three reasons, whatever the
\* number of requests, publishers and workers.
THEOREM ScheduledIsCarriedAlways ==
  ASSUME PostTable
  PROVE  PostJobsSpec => []ScheduledIsCarried
<1>1. PostJobsInit => CarriedInv
  BY CarriedInit
<1>2. PostJobsSpec => []IInv
  BY PostsUseTheJobs, Inductive, PTL
<1>3. IInv /\ CarriedInv /\ [PostJobsNext]_postJobsVars => CarriedInv'
  BY CarriedStep
<1>4. IInv /\ CarriedInv => ScheduledIsCarried
  <2> SUFFICES ASSUME IInv, CarriedInv PROVE ScheduledIsCarried
    OBVIOUS
  <2>1. JobCarries => jobs[ScheduledPost].status \in {"PENDING", "RUNNING", "RETRY_SCHEDULED", "FAILED"}
    BY DEF JobCarries, IInv, JobTypeOK, Job, Statuses, PostTable
  <2>2. QED  BY <2>1 DEF CarriedInv, Carried, ScheduledIsCarried, OnTheWay
<1>5. QED  BY <1>1, <1>2, <1>3, <1>4, PTL DEF PostJobsSpec
================================================================================
