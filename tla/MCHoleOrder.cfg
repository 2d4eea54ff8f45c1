CONSTANTS Programs <- HoleAfterBlock
          Context <- Helpers
          Partials <- Files
          MaxInt = 31
SPECIFICATION Spec
INVARIANT InterpretedMarkersInPlace
CHECK_DEADLOCK FALSE
