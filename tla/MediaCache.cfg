SPECIFICATION FairSpec
CONSTANTS
  None = None
  k1 = k1
  k2 = k2
  s1 = s1
  g1 = g1
  g2 = g2
  ClipKeys = {k1, k2}
  StitchKeys = {s1}
  Sizes = {1, 3}
  Budget = 2
  MaxFills = 1
  MaxSpools = 1
  Callers = {g1, g2}
INVARIANTS SpoolsGivenBack DiskAccounted BudgetOrNewest SingleFlight
PROPERTIES FillReturns
