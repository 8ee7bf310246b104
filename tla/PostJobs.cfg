SPECIFICATION PostJobsSpec
CONSTANTS
  ScheduledPost = ScheduledPost
  RetryPost = RetryPost
  NoId = NoId
  q1 = q1
  p1 = p1
  w1 = w1
  Jobs <- BothPostJobs
  Requests <- OneRequest
  Publishers <- OnePublisher
  Workers <- OneWorker
  PostFaults <- AllFaults
  MaxTasks = 1
  MaxHandled = 1
  MaxAttempts = 2
  MaxRetries = 1
  MaxQueued = 1
  MaxRuns = 2
CONSTRAINT Rescheduled
INVARIANT ScheduledIsCarried
PROPERTY PostsOverBook
CHECK_DEADLOCK FALSE
