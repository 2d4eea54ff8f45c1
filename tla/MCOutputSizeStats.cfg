CONSTANTS
  r1 = r1
  r2 = r2
  q1 = q1
  Renderers <- MCRenderers
  Planners <- MCPlanners
  Sizes <- MCSizes
  Estimates <- MCEstimates
  MaxGrowHint = 16
  MaxHeadroom = 4
  MaxObserves = 3
SPECIFICATION Spec
INVARIANTS
  TypeOk
  EstimateWithinRange
  RangeIsExact
  UnstableHasWitnesses
PROPERTIES
  ImplementsAtomicStats
  ObservationsEnd
CHECK_DEADLOCK FALSE
