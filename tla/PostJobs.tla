------------------------------- MODULE PostJobs -------------------------------
(***************************************************************************)
(* A social post with its two jobs in the table of SyncJobs: the steps of  *)
(* Posts beside those of SyncJobs.  The four that create or handle a job   *)
(* are written here against the rows; all others leave the table alone.    *)
(***************************************************************************)
EXTENDS SyncJobs

CONSTANTS
  ScheduledPost, RetryPost, \* the jobs "scheduled-post:<id>" and "retry-post:<id>"
  Requests, Publishers,     \* those of Posts
  PostFaults,               \* what may go wrong: "broker", "network", "crash"
  MaxTasks,                 \* bound: publish tasks waiting in the queue
  MaxHandled                \* bound: handler calls of one job

VARIABLES
  post, req, tasks, pub, cleared, published, excused, crossed,   \* those of Posts
  handled,                  \* history: how often each job's handler was called
  stalled                   \* history: what was to carry a scheduled post on came to nothing

postVars == <<post, req, tasks, pub, cleared, published, excused, crossed>>
postJobsVars == <<jobVars, postVars, handled, stalled>>

\* Posts with the book that the table keeps.
Post == INSTANCE Posts WITH
  ScheduleJob <- ScheduledPost, RetryJob <- RetryPost, Faults <- PostFaults,
  runs <- handled, MaxRuns <- MaxHandled

\* The post's jobs are the two the table has: other jobs do not meet it.
PostTable == Jobs = {ScheduledPost, RetryPost} /\ ScheduledPost # RetryPost

PostJobsInit ==
  /\ JobInit
  /\ handled = [j \in Jobs |-> 0]
  /\ stalled = FALSE
  /\ Post!Init

(***************************************************************************)
(* The callers of create_job, and the handlers.                            *)
(***************************************************************************)
\* create_job under the job's fixed key.
EnsureJob(j, when) ==
  /\ \/ Create(j, when)
     \/ jobs[j].status # "none" /\ UNCHANGED jobs
  /\ UNCHANGED <<queue, batch, exec, runs, lost, overlapped, handled>>

\* schedule_post, after its commit.  A row that has the key is taken for the job.
CreateScheduleJob(q) ==
  /\ req[q].op = "job"
  /\ EnsureJob(ScheduledPost, "future")
  /\ stalled' = (stalled \/ jobs[ScheduledPost].status # "none")
  /\ Post!End(q)
  /\ UNCHANGED <<post, tasks, pub, cleared, published, excused, crossed>>

\* scan_due_scheduled_posts.
ScanPosts ==
  /\ post.status = "SCHEDULED" /\ post.when = "due"
  /\ EnsureJob(ScheduledPost, "due")
  /\ UNCHANGED <<postVars, stalled>>

\* publish_social_post, when Facebook has refused the post.
CreateRetryJob(p) ==
  /\ pub[p].pc = "failed"
  /\ EnsureJob(RetryPost, "due")
  /\ Post!Rest(p)
  /\ UNCHANGED <<post, req, tasks, cleared, published, excused, crossed, stalled>>

\* publish_social_post.delay: the handler returns, or the broker's exception ends it.
Sent(w) ==
  \/ exec'[w].pc = "returned" /\ Post!AddTask
  \/ exec'[w].pc = "raised" /\ "broker" \in PostFaults /\ UNCHANGED tasks

\* _handle_scheduled_post_publish and _handle_retry_failed_send.
HandlePost(w) ==
  /\ Handle(w) /\ Sent(w)
  /\ handled[exec[w].job] < MaxHandled
  /\ handled' = [handled EXCEPT ![exec[w].job] = @ + 1]
  /\ UNCHANGED <<post, req, pub, cleared, published, excused, crossed, stalled>>

(***************************************************************************)
(* The steps of Posts that leave the table alone, and its failures.        *)
(***************************************************************************)
PostMoves ==
  /\ UNCHANGED <<jobVars, handled, stalled>>
  /\ \/ Post!CreatePost \/ Post!TimePasses
     \/ \E q \in Requests :
          Post!LoadPost(q) \/ Post!CommitPost(q) \/ Post!DeletePost(q) \/ Post!SubmitPublish(q)
     \/ \E p \in Publishers : Post!TakeTask(p) \/ Post!CallFacebook(p) \/ Post!ApplyResult(p)

PostFails ==
  /\ UNCHANGED <<jobVars, handled>>
  /\ \/ \E q \in Requests :
          Post!RequestFails(q) /\ stalled' = (stalled \/ req[q].op \in {"job", "task"})
     \/ \E p \in Publishers :
          (Post!CallBreaks(p) \/ Post!PublisherDies(p)) /\ stalled' = TRUE

PostJobsNext ==
  \/ \E q \in Requests : CreateScheduleJob(q)
  \/ ScanPosts
  \/ \E p \in Publishers : CreateRetryJob(p)
  \/ \E w \in Workers : HandlePost(w)
  \/ PostMoves \/ PostFails
  \/ Machinery /\ UNCHANGED <<postVars, handled, stalled>>

PostJobsSpec == PostJobsInit /\ [][PostJobsNext]_postJobsVars

--------------------------------------------------------------------------------
(***************************************************************************)
(* Properties.                                                             *)
(***************************************************************************)

\* What Posts shows of a post holds of one whose jobs are rows of sync_jobs: over the
\* table it takes only steps it may take over a JobBook, whatever its workers lose
\* and its dispatcher repeats.
PostsOverBook == Post!Spec

\* Somebody will yet publish the post: a request, a task, a publisher, the job, or the
\* scan that creates the job.  A job whose worker died is left RUNNING.
OnTheWay ==
  \/ \E q \in Requests : req[q].op \in {"job", "task"}
  \/ tasks > 0
  \/ \E p \in Publishers : pub[p].pc \in {"loaded", "called"}
  \/ jobs[ScheduledPost].status \in {"PENDING", "RUNNING", "RETRY_SCHEDULED"}
  \/ jobs[ScheduledPost].status = "none" /\ post.when # "null"

\* A scheduled post is never forgotten, however its edits, its old tasks and the runs
\* of its jobs overlap, but for three reasons: a request or a publish task failed half
\* way, its job was given up, or it was scheduled again when its key had a row.
ScheduledIsCarried ==
  post.status = "SCHEDULED" =>
    OnTheWay \/ stalled \/ jobs[ScheduledPost].status = "FAILED"
================================================================================
