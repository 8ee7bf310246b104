SPECIFICATION Spec
CONSTANTS
  x1 = x1
  x2 = x2
  p1 = p1
  k1 = k1
  k2 = k2
  s1 = s1
  r1 = r1
  r2 = r2
  None = None
  Rows <- TwoRows
  Pages <- OnePage
  Tokens <- TwoTokens
  Sessions <- OneSession
  Requests <- TwoRequests
  MaxServed = 5
SYMMETRY Symmetry
INVARIANTS
  StatusAgrees
  SessionUsedOnce
CHECK_DEADLOCK FALSE
