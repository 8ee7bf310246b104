SPECIFICATION Spec
CONSTANTS
  u1 = u1
  a1 = a1
  a2 = a2
  c1 = c1
  k1 = k1
  t1 = t1
  t2 = t2
  t3 = t3
  r1 = r1
  r2 = r2
  None = None
  Supers <- OneSuper
  Admins <- TwoAdmins
  Slugs <- OneSlug
  Keys <- OneKey
  Tokens <- ThreeTokens
  Requests <- TwoRequests
  MaxUses = 1
  MaxServed = 5
SYMMETRY Symmetry
INVARIANTS
  KeyUses
  SessionsEnd
  AdminFollowsManager
CHECK_DEADLOCK FALSE
