SPECIFICATION PromptSpec
CONSTANTS
  i1 = i1
  i2 = i2
  i3 = i3
  a1 = a1
  c1 = c1
  r1 = r1
  r2 = r2
  None = None
  Ids <- ThreeIds
  Agents <- OneAgent
  Conns <- OneConn
  Requests <- TwoRequests
  MaxServed = 4
SYMMETRY Symmetry
INVARIANTS
  OneActive
PROPERTY ActivatedIsUsed
CHECK_DEADLOCK FALSE
