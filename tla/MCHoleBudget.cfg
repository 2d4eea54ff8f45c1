CONSTANTS
  r1 = r1
  r2 = r2
  Renders <- MCRenders
  Holes = 2
  Limits <- MCLimits
  BudgetLimit = 1
  CachedSlice = CachedSlice
  Nobody = Nobody
SPECIFICATION Spec
INVARIANT
  ExhaustionIsReported
