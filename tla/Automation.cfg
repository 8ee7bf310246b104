SPECIFICATION Spec
CONSTANTS
  e1 = e1
  w1 = w1
  w2 = w2
  m1 = m1
  i1 = i1
  Day = 2
  Manual <- OneManual
  Items <- OneItem
  Workers <- TwoWorkers
  Edits <- OneEdit
  MaxTime = 3
  MaxRuns = 2
SYMMETRY Symmetry
INVARIANTS
  SlotRespected
  SecondDraftExplained
PROPERTY RunNotSkipped
CHECK_DEADLOCK FALSE
