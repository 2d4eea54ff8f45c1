CONSTANTS
  p1 = p1
  p2 = p2
  q1 = q1
  f = f
  g = g
  Spenders <- MCSpenders
  Observers <- MCObservers
  Names <- MCNames
  NoName = NoName
  Costs <- MCCosts
  FunctionCosts <- MCFunctionCosts
  Segments <- MCSegments
  Limit = 4
  MaxInt = 7
  MaxSpends = 3
SPECIFICATION Spec
INVARIANTS
  TypeOk
  GrantedWithinLimitUnlessWrapped
  SnapshotAccountsForTotal
  QuiescentStatsAgree
PROPERTIES
  ExhaustionIsFinal
CHECK_DEADLOCK FALSE
