SPECIFICATION Spec
CONSTANTS
  s1 = s1
  s2 = s2
  Never = Never
  Sessions <- OneSession
  JobSessions = {}
  MaxCredits = 1
  Amounts <- OneAmount
  Requests <- SmallRequests
  Opening = 0
  Life = 2
  MaxTime = 1
  MaxColumn = 20
PROPERTY
  DebitReachesBalance
CHECK_DEADLOCK FALSE
