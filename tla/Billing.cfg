SPECIFICATION FairBillingSpec
CONSTANTS
  monthly = monthly
  yearly = yearly
  a1 = a1
  a2 = a2
  r1 = r1
  r2 = r2
  k1 = k1
  k2 = k2
  x1 = x1
  x2 = x2
  NoAccount = NoAccount
  NoPlan = NoPlan
  Accounts <- TwoAccounts
  Plans <- BothPlans
  ScriptPlans <- MonthlyOnly
  Credit <- CreditOf
  Interval <- IntervalOf
  NewStatuses <- ActiveOrNot
  AskedDates <- SecondPeriod
  Subscribers <- TwoRequests
  Seeders <- OneSeeder
  Scans <- TwoScans
  MaxSubs = 2
  MaxPeriods = 2
INVARIANTS
  OneActive
  MonthlyMatchesPlan
  PeriodPaidOnce
PROPERTY CreditArrives
CHECK_DEADLOCK FALSE
