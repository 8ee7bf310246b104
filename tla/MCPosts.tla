------------------------------- MODULE MCPosts -------------------------------
(***************************************************************************)
(* Instances of Posts for TLC.                                             *)
(***************************************************************************)
EXTENDS Posts, TLC

CONSTANTS q1, q2, p1, p2

BothJobs == {ScheduleJob, RetryJob}
TwoRequests == {q1, q2}
TwoPublishers == {p1, p2}
Symmetry == Permutations(Publishers) \cup Permutations(Requests)

AllFaults == {"broker", "network", "crash"}

\* bound: two requests are served at one time only while no publish task waits or runs
\* and none has published the post; a post they crossed on is followed until Facebook is
\* called, and any post until Facebook has accepted it twice
QuietOverlaps ==
  /\ (\A q \in Requests : req[q].op # "none") =>
       tasks = 0 /\ published = 0 /\ \A p \in Publishers : pub[p].pc = "idle"
  /\ published <= 1
  /\ crossed => published = 0 /\ \A p \in Publishers : pub[p].pc \in {"idle", "loaded"}
==============================================================================
