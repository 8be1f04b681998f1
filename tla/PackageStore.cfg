\* Install, remove, purge, import and reconcile with resets and failures.
SPECIFICATION FairSpec
CONSTANTS
  a1 = a1
  a2 = a2
  b1 = b1
  a = a
  b = b
  Refs <- MCRefs
  Ids <- MCIds
  IdOf <- MCIdOf
  SeedList <- MCSeedList
  NoRef = NoRef
INVARIANTS
  PackagesWhole
  NoInheritedState
  SeedsAdopted
PROPERTIES
  OperationsEnd
