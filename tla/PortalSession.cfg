\* Sessions with clients, uploads, radio events and one faulty step.
CONSTANTS
  IdleLimit = 2
  AbsoluteLimit = 3
  Chunks = 2
  MaxSessions = 2
  MaxClock = 5
  MaxFaults = 1
SPECIFICATION FairSpec
CHECK_DEADLOCK FALSE
INVARIANTS
  NothingLeftBehind
  RadioTruthful
PROPERTIES
  SessionEnds
