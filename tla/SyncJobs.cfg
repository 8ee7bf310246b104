SPECIFICATION FairJobSpec
CONSTANTS
  NoId = NoId
  j1 = j1
  w1 = w1
  Jobs <- OneJob
  Workers <- OneWorker
  MaxAttempts = 3
  MaxRetries = 2
  MaxQueued = 2
  MaxRuns = 30
PROPERTIES
  ImplementsBook
  JobsFinish
CHECK_DEADLOCK FALSE
