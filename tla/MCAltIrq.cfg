SPECIFICATION PartSpec
CONSTANTS
  ALT_NIRQ = 3
  Nested <- AllButFirst
  Registered <- First
  Faulty <- Ends
  Unknown <- Beyond
  Size = 7
  LineSize = 2
  Drivers <- InTurn
  Copied <- FirmwareOrFlash
INVARIANTS
  InterruptsRight
PROPERTIES
  Served
CHECK_DEADLOCK FALSE
