CONSTANTS
  MAXNETS = 5
  Macs <- OneOfEach
  Lists <- Neighbours
  Defaults = 1
  Spare = 1
  MallocMayFail = TRUE
  MaxChannels = 2
  Depths <- TwoDepths
  Revisions <- FourBits
  Populated = {0, 3}
  Able <- TwoPhys
  MaxCalls = 2
SPECIFICATION PartSpec
INVARIANTS
  TableAndGroups
PROPERTIES
  FieldsAtomic
CHECK_DEADLOCK FALSE
