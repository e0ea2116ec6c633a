CONSTANTS
  Channels = 2
  Addresses = 3
  Populations <- Kinds
  Configured <- AutoAndNamed
  MacTypes <- MixedTypes
  Threshold = 0
  MaxLosses = 1
  MallocFails = TRUE
  InvalidSpeed = TRUE
SPECIFICATION FairSpec
INVARIANTS
  PhyInv
PROPERTIES
  Restores
  LinksWithinCommon
  CallsReturn
