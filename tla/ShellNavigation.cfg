\* Every screen, press, outcome of an action and way to sleep, over three catalogs.
SPECIFICATION Spec
CONSTANTS
  Catalogs <- MCCatalogs
  Zones = 4
  DiagnosticRows = 4
  Masks <- MCMasks
CHECK_DEADLOCK FALSE
INVARIANTS
  SelectionVisible
  HistoryIsPath
  SleepShowsScreen
PROPERTIES
  NoPackageBeforeRecovery
