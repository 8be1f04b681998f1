\* Attempts, boots and selections with a reset or a failed save anywhere.
SPECIFICATION FairRunnerSpec
CONSTANTS
  p1 = p1
  p2 = p2
  Refs <- MCRefs
  NoRef = NoRef
  Blank = Blank
  InstalledMax = 2
  HealthMax = 2
INVARIANTS
  NoSecondProbation
  NoHastyQuarantine
PROPERTIES
  PromiseKept
  AttemptEnds
