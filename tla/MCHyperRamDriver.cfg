SPECIFICATION DriverSpec
CONSTANTS
  Lengths <- MCLengths
  PowerUpTotals <- MCPowerUpTotals
INVARIANTS
  DriverInv
  FreshSetup
PROPERTIES
  CommandFirst
  ExactEdges
  StopsWhenDone
