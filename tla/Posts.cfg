SPECIFICATION Spec
CONSTANTS
  ScheduleJob = ScheduleJob
  RetryJob = RetryJob
  q1 = q1
  q2 = q2
  p1 = p1
  p2 = p2
  Jobs <- BothJobs
  Requests <- TwoRequests
  Publishers <- TwoPublishers
  Faults <- AllFaults
  MaxRuns = 1
  MaxTasks = 1
CONSTRAINT QuietOverlaps
SYMMETRY Symmetry
INVARIANTS
  ScheduledWasApproved
  PublishedWasAccepted
  DuplicateExplained
CHECK_DEADLOCK FALSE
