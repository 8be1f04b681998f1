\* Faces and apps with faulty callbacks, radios and images, presses and idleness.
SPECIFICATION FairSpec
CONSTANTS
  MaxFaults = 1
  RequestTimeout = 1
  IdleTimeout = 2
  MaxCalls = 2
  MaxPresses = 1
  MaxRuns = 2
CHECK_DEADLOCK FALSE
INVARIANTS
  LifecyclePaired
  NothingResident
  EndedMeansOff
PROPERTIES
  ComesBack
