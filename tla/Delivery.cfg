SPECIFICATION Spec
CONSTANTS
  NoId = NoId
  i1 = i1
  w1 = w1
  w2 = w2
  c1 = c1
  c2 = c2
  Jobs <- OneItem
  Workers <- TwoWorkers
  Couriers <- TwoCouriers
  Faults <- AllFaults
  MaxAttempts = 2
  MaxRetries = 1
  MaxQueued = 2
  MaxRuns = 3
  MaxMail = 2
SYMMETRY Symmetry
INVARIANTS
  AttemptsCounted
  AttemptsExact
  GivenUpWhenExhausted
  FailureHasRetry
  SendsBounded
  DuplicateExplained
PROPERTIES
  SentIsFinal
  CompletedIsFinal
CHECK_DEADLOCK FALSE
