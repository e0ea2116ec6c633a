CONSTANTS
  Byte = {0, 1}
  Depth = 1
  BUF_LEN = 3
  DEFAULT_TIMEOUT = 1
  INT_MAX = 3
  Counts = {1, 3}
  Timeouts = {}
  Programs <- WritesOrReads
SPECIFICATION EitherSpec
INVARIANTS
  TypeOK
  InterruptsStayOn
PROPERTIES
  TxStream
  RxStream
