\* Settings, zone and clock from the watch and the portal, with one fault.
SPECIFICATION Spec
CONSTANTS
  Offsets <- MCOffsets
  CustomOffset = 60
  Faces = {"face"}
  Networks <- MCNetworks
  Instants <- MCInstants
  Entries <- MCEntries
  MaxOps = 4
  MaxFaults = 1
  MaxEdits = 1
CHECK_DEADLOCK FALSE
INVARIANTS
  StoredAsAsked
  ZoneAgrees
  SetIsRead
