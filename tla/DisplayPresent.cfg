\* Presentations by the shell and by a face, with failures, presses, sleep and resets.
SPECIFICATION DisplayFairSpec
CONSTANTS
  frameA = frameA
  frameB = frameB
  up = up
  down = down
  Frames = {frameA, frameB}
  Buttons = {up}
  Mixed = Mixed
  Unknown = Unknown
  Limits = {2, 4}
  QueueMax = 1
INVARIANTS
  RetainedTruthful
  WatchdogBalanced
PROPERTIES
  GhostingBounded
  PressHandled
