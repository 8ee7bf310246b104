SPECIFICATION Spec
CONSTANTS
  s1 = s1
  s2 = s2
  Never = Never
  Sessions <- TwoSessions
  JobSessions <- OneSession
  MaxCredits = 2
  Amounts <- OneAmount
  Requests <- SmallRequests
  Opening = 2
  Life = 1
  MaxTime = 1
  MaxColumn = 20
INVARIANTS
  NoTokenLost
  Conserved
  WalletIdentity
  ExpiredIsEmpty
  ExpiringFirst
PROPERTY BookSpec
CHECK_DEADLOCK FALSE
