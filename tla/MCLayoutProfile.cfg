CONSTANTS
  r1 = r1
  r2 = r2
  Renderers <- MCRenderers
  Nobody = Nobody
  Yields <- MCYields
  Overheads <- MCOverheads
  MinSamples = 2
  WarmSamples = 1
  MaxDepth = 2
  MinWidth = 8
  MaxChildren = 4
  MaxReports = 7
SPECIFICATION Spec
INVARIANTS
  TypeOk
  ChildrenAccounted
  HeldStatsAreLive
  ObservationsKept
  FallbackHasMinimum
PROPERTIES
  ImplementsTree
  PredictionsEnd
CHECK_DEADLOCK FALSE
