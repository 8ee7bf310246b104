SPECIFICATION Spec
CONSTANTS
  n1 = n1
  n2 = n2
  Runners <- TwoRunners
SYMMETRY Symmetry
INVARIANTS
  TablesMatchVersion
  TornStaysTorn
PROPERTY OnlyLastTwoUndone
