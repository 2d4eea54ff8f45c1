CONSTANTS
  r1 = r1
  r2 = r2
  r3 = r3
  Renderers <- MCRenderers
  Yields <- MCYields
  Overheads <- MCOverheads
  Estimates <- MCEstimates
  MaxGrowHint = 16
  RatioScale = 4
  ErrorScale = 16
  MaxError = 64
  MaxReports = 3
SYMMETRY Symmetry
SPECIFICATION Spec
INVARIANTS
  LearnedWithinRange
  PredictionIsGrounded
CHECK_DEADLOCK FALSE
