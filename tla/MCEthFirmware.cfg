SPECIFICATION Spec
CONSTANTS
  SinkFrames <- MCSinkFrames
INVARIANTS
  EthInv
  EngineAtRest
  ReceiverServed
PROPERTIES
  OwnInterrupt
  SendsOnRequest
  BothServed
