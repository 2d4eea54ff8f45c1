CONSTANTS Programs <- Templates
          Context <- Helpers
          Partials <- Files
          MaxInt = 31
SPECIFICATION Spec
INVARIANT TypeOk
INVARIANT OperandsAvailable
INVARIANT MarkersInPlace
INVARIANT EnginesAgree
PROPERTY Advances
CHECK_DEADLOCK FALSE
