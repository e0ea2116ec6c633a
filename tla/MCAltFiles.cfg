CONSTANTS
  ALT_MAX_FD = 5
  AppFlags <- FlagsC
  Devices <- DevicesC
  Mounts <- MountsC
  Files <- FilesC
  Callbacks <- CallbacksC
  Stdin <- Uart
  Stdout <- Uart
  Stderr <- Uart
SPECIFICATION Spec
CONSTRAINT OneOrder
INVARIANTS
  PoolInv
PROPERTIES
  LockHolds
  DescriptorsKept
