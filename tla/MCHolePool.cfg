CONSTANTS
  r1 = r1
  r2 = r2
  Renders <- MCRenders
  Holes = 3
  Limits <- MCLimits
  BudgetLimit = 2
  CachedSlice = CachedSlice
  Nobody = Nobody
SPECIFICATION Spec
INVARIANTS
  TypeOk
  AnswersOwnHoles
  PoolWithinBounds
PROPERTIES
  ImplementsPage
  HolesGetFilled
