SPECIFICATION PartSpec
CONSTANTS
  Size = 12
  LineSize = 2
  Address <- FirmwareAddress
  Chains <- FirmwareChains
  Waits <- FirmwareWaits
  Neighbours <- FirmwareNeighbours
  Failing <- Rx
  ReadAddresses = {67305985}
  WriteAddresses = {134678021}
  Lengths = {0, 65535}
  Channels = {15, 16, 255}
  NextAddress = 202050057
PROPERTIES
  ChainsOfFirmware
  BytesOfDescriptor
