-------------------------------- MODULE Posts --------------------------------
(***************************************************************************)
(* One social post: the requests that create, edit, approve, reject,       *)
(* schedule, publish and regenerate it, the beat task that scans for due   *)
(* posts, and the publish_social_post task.                                *)
(*                                                                         *)
(* A request loads the post, checks its status and commits; a publish task *)
(* holds what it loaded during the call to Facebook.  The post has two     *)
(* jobs in sync_jobs, "scheduled-post:<id>" and "retry-post:<id>", which   *)
(* are used here as JobBook promises and SyncJobs implements.              *)
(***************************************************************************)
EXTENDS JobBook

CONSTANTS
  ScheduleJob, RetryJob,    \* the two jobs of the post
  Requests,                 \* requests about the post served at one time
  Publishers,               \* worker processes of the "posts" queue
  Faults,                   \* what may go wrong: "broker", "network", "crash"
  MaxTasks,                 \* bound: publish tasks waiting in the queue
  MaxRuns                   \* bound: handler runs of one job

ASSUME PostAssumption ==
  /\ Jobs = {ScheduleJob, RetryJob} /\ ScheduleJob # RetryJob
  /\ Faults \subseteq {"broker", "network", "crash"}
  /\ MaxTasks \in Nat /\ MaxRuns \in Nat

VARIABLES
  post,             \* the row
  req,              \* what each request has loaded and has still to do
  tasks,            \* publish_social_post messages waiting
  pub,              \* the task each publisher runs
  cleared,          \* history: the content has been approved since it last changed
  published,        \* history: posts Facebook accepted, 2 standing for more
  excused,          \* history: a reason for which the post may go out again
  crossed           \* history: a request has written the post while another had it loaded

postVars == <<post, req, tasks, pub, cleared, published, excused, crossed>>
vars == <<bookVars, postVars>>

PostStatuses == {"DRAFT", "APPROVED", "SCHEDULED", "PUBLISHED", "FAILED", "REJECTED"}
Post == [status : PostStatuses \cup {"none", "deleted"}, approval : {"required", "free"},
         when : {"null", "future", "due"}]
NoPost == [status |-> "none", approval |-> "free", when |-> "null"]

\* The columns an UPDATE sets: those a session assigned a value other than the one
\* it loaded.
Update == [status : PostStatuses \cup {"keep"}, approval : {"required", "free", "keep"},
           when : {"null", "future", "keep"}]
Keep == [status |-> "keep", approval |-> "keep", when |-> "keep"]
Changed(new, old) == IF new = old THEN "keep" ELSE new
Stored(update) ==
  [c \in DOMAIN post |-> IF update[c] = "keep" THEN post[c] ELSE update[c]]

Ops == {"update", "delete", "approve", "reject", "schedule", "publish", "generate"}
Request == [op : Ops \cup {"none", "job", "task"}, update : Update]
NoRequest == [op |-> "none", update |-> Keep]

Publisher == [pc : {"idle", "loaded", "called", "failed"}, seen : Post,
              result : {"none", "PUBLISHED", "FAILED"}]
Resting == [pc |-> "idle", seen |-> NoPost, result |-> "none"]

Init ==
  /\ BookInit
  /\ post = NoPost
  /\ req = [r \in Requests |-> NoRequest]
  /\ tasks = 0
  /\ pub = [p \in Publishers |-> Resting]
  /\ cleared = FALSE
  /\ published = 0
  /\ excused = FALSE
  /\ crossed = FALSE

(***************************************************************************)
(* Requests.                                                               *)
(***************************************************************************)
\* create_post, or generate_post without a post_id.
CreatePost ==
  /\ post.status = "none"
  /\ \E approval \in {"required", "free"}, when \in {"null", "future"} :
        post' = [status |-> "DRAFT", approval |-> approval, when |-> when]
  /\ UNCHANGED <<bookVars, req, tasks, pub, cleared, published, excused, crossed>>

\* Publishing without the approval check (mutant of PublishReady).
ReadyUnapproved(r) == r.status \in {"DRAFT", "APPROVED", "FAILED", "REJECTED"}

\* _ensure_publish_ready.
PublishReady(r) ==
  IF r.approval = "required" THEN r.status = "APPROVED"
  ELSE r.status \in {"DRAFT", "APPROVED", "FAILED", "REJECTED"}

\* The 409s of PostService: the status the request loaded allows the operation.
Allowed(op, r) ==
  CASE op = "update"   -> r.status \in {"DRAFT", "REJECTED", "FAILED"}
    [] op = "delete"   -> r.status \notin {"PUBLISHED", "SCHEDULED"}
    [] op = "approve"  -> r.status \in {"DRAFT", "REJECTED"}
    [] op = "reject"   -> r.status \in {"DRAFT", "APPROVED", "SCHEDULED", "FAILED"}
    [] op = "schedule" -> PublishReady(r)
    [] op = "publish"  -> PublishReady(r)
    [] op = "generate" -> TRUE

\* The UPDATEs each operation may issue for the row it loaded.
Updates(op, r) ==
  LET status(new) == [Keep EXCEPT !.status = Changed(new, r.status)]
  IN CASE op = "delete"   -> {Keep}
       [] op = "update"   -> {[Keep EXCEPT !.approval = Changed(a, r.approval)] : a \in {"required", "free"}}
       [] op = "approve"  -> {status("APPROVED")}
       [] op = "reject"   -> {[status("REJECTED") EXCEPT !.when = Changed("null", r.when)]}
       [] op = "schedule" -> {[status("SCHEDULED") EXCEPT !.when = "future"]}
       [] op = "publish"  -> {status("SCHEDULED")}
       [] op = "generate" -> {[status("DRAFT") EXCEPT !.approval = Changed(a, r.approval)] : a \in {"required", "free"}}

LoadPost(q) ==
  /\ req[q].op = "none"
  /\ post.status \in PostStatuses
  /\ \E op \in Ops :
        /\ Allowed(op, post)
        /\ \E u \in Updates(op, post) : req' = [req EXCEPT ![q] = [op |-> op, update |-> u]]
  /\ UNCHANGED <<bookVars, post, tasks, pub, cleared, published, excused, crossed>>

\* What is left to do after the commit: create_job, or publish_social_post.delay.
After(op) ==
  CASE op = "schedule" -> [NoRequest EXCEPT !.op = "job"]
    [] op = "publish"  -> [NoRequest EXCEPT !.op = "task"]
    [] OTHER           -> NoRequest

End(q) == req' = [req EXCEPT ![q] = NoRequest]

CommitPost(q) ==
  /\ req[q].op \in Ops \ {"delete"}
  /\ post.status # "deleted"
  /\ post' = Stored(req[q].update)
  /\ cleared' = IF req[q].op \in {"update", "generate"} THEN FALSE
                ELSE IF req[q].op = "approve" THEN TRUE ELSE cleared
  /\ excused' = (excused \/ (post.status = "PUBLISHED" /\ post'.status # "PUBLISHED"))
  /\ crossed' = (crossed \/ \E r \in Requests \ {q} : req[r].op \in Ops)
  /\ req' = [req EXCEPT ![q] = After(req[q].op)]
  /\ UNCHANGED <<bookVars, tasks, pub, published>>

DeletePost(q) ==
  /\ req[q].op = "delete"
  /\ post' = [NoPost EXCEPT !.status = "deleted"]
  /\ End(q)
  /\ UNCHANGED <<bookVars, tasks, pub, cleared, published, excused, crossed>>

\* create_job under the job's fixed key.
EnsureJob(j, when) ==
  /\ \/ Add(j, when)
     \/ book[j] # "none" /\ UNCHANGED book
  /\ UNCHANGED runs

CreateScheduleJob(q) ==
  /\ req[q].op = "job"
  /\ EnsureJob(ScheduleJob, "future")
  /\ End(q)
  /\ UNCHANGED <<post, tasks, pub, cleared, published, excused, crossed>>

AddTask == tasks < MaxTasks /\ tasks' = tasks + 1

SubmitPublish(q) ==
  /\ req[q].op = "task"
  /\ AddTask
  /\ End(q)
  /\ UNCHANGED <<bookVars, post, pub, cleared, published, excused, crossed>>

\* The request fails, because its process dies or the row it updates was deleted;
\* the broker's exception is swallowed.
RequestFails(q) ==
  /\ req[q].op # "none"
  /\ \/ req[q].op = "task" /\ "broker" \in Faults
     \/ req[q].op # "task" /\ "crash" \in Faults
     \/ req[q].op \in Ops /\ post.status = "deleted"
  /\ End(q)
  /\ UNCHANGED <<bookVars, post, tasks, pub, cleared, published, excused, crossed>>

(***************************************************************************)
(* The beat task and the jobs.                                             *)
(***************************************************************************)
TimePasses ==
  /\ post.when = "future"
  /\ post' = [post EXCEPT !.when = "due"]
  /\ UNCHANGED <<bookVars, req, tasks, pub, cleared, published, excused, crossed>>

\* scan_due_scheduled_posts.
ScanPosts ==
  /\ post.status = "SCHEDULED"
  /\ post.when = "due"
  /\ EnsureJob(ScheduleJob, "due")
  /\ UNCHANGED postVars

\* _handle_scheduled_post_publish and _handle_retry_failed_send: a run of the job
\* sends the task, unless the broker refuses it.
HandlePost(j) ==
  /\ runs[j] < MaxRuns
  /\ Run(j)
  /\ AddTask \/ ("broker" \in Faults /\ UNCHANGED tasks)
  /\ UNCHANGED <<post, req, pub, cleared, published, excused, crossed>>

(***************************************************************************)
(* publish_social_post.                                                    *)
(***************************************************************************)
Rest(p) == pub' = [pub EXCEPT ![p] = Resting]

\* A task that does not look at the status (mutant of Publishable).
PublishableAlways(r) == r.status \in PostStatuses

\* The task returns when the post is missing or already published.
Publishable(r) == r.status \in PostStatuses \ {"PUBLISHED"}

\* What matters of the row the task loaded: whether its status will change, and
\* whether its time is set.
Looked(r) ==
  [NoPost EXCEPT !.status = IF r.status = "FAILED" THEN "FAILED" ELSE "SCHEDULED",
                 !.when = IF r.when = "null" THEN "null" ELSE "future"]

TakeTask(p) ==
  /\ pub[p].pc = "idle"
  /\ tasks > 0
  /\ tasks' = tasks - 1
  /\ IF Publishable(post)
     THEN /\ pub' = [pub EXCEPT ![p] = [Resting EXCEPT !.pc = "loaded", !.seen = Looked(post)]]
          /\ excused' = (excused \/ \E q \in Publishers : pub[q].pc # "idle")
     ELSE UNCHANGED <<pub, excused>>
  /\ UNCHANGED <<bookVars, post, req, cleared, published, crossed>>

Accepted == published' = IF published = 0 THEN 1 ELSE 2

CallFacebook(p) ==
  /\ pub[p].pc = "loaded"
  /\ \/ Accepted /\ pub' = [pub EXCEPT ![p].pc = "called", ![p].result = "PUBLISHED"]
     \/ UNCHANGED published /\ pub' = [pub EXCEPT ![p].pc = "called", ![p].result = "FAILED"]
  /\ UNCHANGED <<bookVars, post, req, tasks, cleared, excused, crossed>>

\* An exception that is not a Graph API error ends the task.
CallBreaks(p) ==
  /\ pub[p].pc = "loaded"
  /\ "network" \in Faults
  /\ Accepted \/ UNCHANGED published
  /\ Rest(p)
  /\ excused' = TRUE
  /\ UNCHANGED <<bookVars, post, req, tasks, cleared, crossed>>

\* A publication is stored whatever Facebook said (mutant of Result).
ResultPublished(q) ==
  [Keep EXCEPT !.status = Changed("PUBLISHED", q.seen.status), !.when = Changed("null", q.seen.when)]

\* apply_publish_result.
Result(q) ==
  [Keep EXCEPT !.status = Changed(q.result, q.seen.status),
               !.when = IF q.result = "PUBLISHED" THEN Changed("null", q.seen.when) ELSE "keep"]

ApplyResult(p) ==
  /\ pub[p].pc = "called"
  /\ post.status # "deleted"
  /\ post' = Stored(Result(pub[p]))
  /\ excused' = (excused \/ (post.status = "PUBLISHED" /\ post'.status # "PUBLISHED"))
  /\ IF pub[p].result = "FAILED" THEN pub' = [pub EXCEPT ![p].pc = "failed"] ELSE Rest(p)
  /\ UNCHANGED <<bookVars, req, tasks, cleared, published, crossed>>

CreateRetryJob(p) ==
  /\ pub[p].pc = "failed"
  /\ EnsureJob(RetryJob, "due")
  /\ Rest(p)
  /\ UNCHANGED <<post, req, tasks, cleared, published, excused, crossed>>

\* The worker dies, or the row it updates was deleted under it.
PublisherDies(p) ==
  /\ pub[p].pc # "idle"
  /\ "crash" \in Faults \/ (pub[p].pc = "called" /\ post.status = "deleted")
  /\ Rest(p)
  /\ excused' = TRUE
  /\ UNCHANGED <<bookVars, post, req, tasks, cleared, published, crossed>>

Publish(p) == CallFacebook(p) \/ CallBreaks(p) \/ ApplyResult(p) \/ CreateRetryJob(p) \/ PublisherDies(p)

Next ==
  \/ CreatePost
  \/ \E q \in Requests :
        \/ LoadPost(q) \/ CommitPost(q) \/ DeletePost(q)
        \/ CreateScheduleJob(q) \/ SubmitPublish(q) \/ RequestFails(q)
  \/ TimePasses \/ ScanPosts
  \/ \E j \in Jobs : (Ripen(j) /\ UNCHANGED postVars) \/ HandlePost(j)
  \/ \E p \in Publishers : TakeTask(p) \/ Publish(p)

Spec == Init /\ [][Next]_vars

--------------------------------------------------------------------------------
(***************************************************************************)
(* Properties.                                                             *)
(***************************************************************************)

\* Types of the post, the request and the publishers.
TypeOK ==
  /\ book \in [Jobs -> {"none", "future", "due"}]
  /\ runs \in [Jobs -> Nat]
  /\ post \in Post
  /\ req \in [Requests -> Request]
  /\ tasks \in Nat
  /\ pub \in [Publishers -> Publisher]
  /\ cleared \in BOOLEAN /\ published \in 0..2
  /\ excused \in BOOLEAN /\ crossed \in BOOLEAN

\* A post that requires approval is scheduled only with content that was approved,
\* whatever publish tasks left over from before do to it in the meantime, unless a
\* request has written the post while another had it loaded.
ScheduledWasApproved ==
  post.status = "SCHEDULED" /\ post.approval = "required" => cleared \/ crossed

\* A post shown as published was accepted by Facebook.
PublishedWasAccepted == post.status = "PUBLISHED" => published > 0

\* A post goes out twice only if two tasks ran at once, a task ended before it
\* stored its result, or a later write took the post out of PUBLISHED.
DuplicateExplained == published = 2 => excused
================================================================================
