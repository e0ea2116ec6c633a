SPECIFICATION Spec
CONSTANTS
  Lengths <- MCLengths
  PowerUpTotals <- MCPowerUpTotals
  Addresses <- MCAddresses
  FifoDepth = 2
  FlagTimings = {FALSE, TRUE}
  MaxRequests = 4
  UserSlots = {0}
INVARIANTS
  ControllerInv
PROPERTIES
  DriverSpec
  RunsInOrder
  AllAreRun
  PresentedIsQueued
  MovesInDataPhase
