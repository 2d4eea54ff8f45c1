CONSTANTS Programs <- PartialScopes
          Context <- Helpers
          Partials <- Files
          MaxInt = 31
SPECIFICATION Spec
INVARIANT PartialsKeepTheirScope
CHECK_DEADLOCK FALSE
