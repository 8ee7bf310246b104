------------------------------ MODULE MCPostJobs ------------------------------
(***************************************************************************)
(* Instance of PostJobs for TLC: one request, publisher and worker.        *)
(***************************************************************************)
EXTENDS PostJobs, TLC

CONSTANTS q1, p1, w1

\* PostTable holds
BothPostJobs == {ScheduledPost, RetryPost}
OneRequest == {q1}
OnePublisher == {p1}
OneWorker == {w1}
AllFaults == {"broker", "network", "crash"}

\* bound: the post needs no approval; it is scheduled, rejected and deleted, and
\* published at once only before it has a job, until the task is queued
Rescheduled ==
  /\ post.approval = "free"
  /\ req[q1].op \notin {"update", "approve", "generate"}
  /\ req[q1].op \in {"publish", "task"} => jobs[ScheduledPost].status = "none"
  /\ tasks > 0 => jobs[ScheduledPost].status # "none"
================================================================================
