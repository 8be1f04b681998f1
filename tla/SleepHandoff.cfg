\* The loop of app_main with presses at every step.
SPECIFICATION HandoffFairSpec
CONSTANTS
  menu = menu
  back = back
  Buttons <- MCButtons
  QueueMax = 1
  Debounce = 1
  EdgesMax = 4
CHECK_DEADLOCK FALSE
INVARIANTS
  ShellIsWhole
PROPERTIES
  SleepLosesNothing
  InputIsHandled
