\* The package index under every order of calls, saves that fail and restarts.
SPECIFICATION Spec
CONSTANTS
  p1 = p1
  p2 = p2
  p3 = p3
  Refs <- MCRefs
  NoRef = NoRef
  Blank = Blank
  InstalledMax = 2
  HealthMax = 2
SYMMETRY Symmetry
INVARIANTS
  MutationsValid
  StartsBounded
PROPERTIES
  QuarantineDurable
