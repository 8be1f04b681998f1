\* The watch that remains awake for a target it has presented.
SPECIFICATION Spec
CONSTANTS
  Catalogs <- MCCatalogs
  Zones = 4
  DiagnosticRows = 4
  Masks <- MCMasks
INVARIANTS
  StuckOnlyUnshown
CHECK_DEADLOCK FALSE
