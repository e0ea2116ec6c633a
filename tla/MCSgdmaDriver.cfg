SPECIFICATION Spec
CONSTANTS
  Ring = 4
  Applications <- CallsTransfersPolls
CHECK_DEADLOCK FALSE
INVARIANTS
  DriverInv
PROPERTIES
  TransfersEnd
