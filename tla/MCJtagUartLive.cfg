CONSTANTS
  Byte = {0}
  Depth = 1
  BUF_LEN = 2
  DEFAULT_TIMEOUT = 1
  INT_MAX = 4
  Counts = {1, 2}
  Timeouts = {2}
  Programs <- WritesReadsOrPolls
SPECIFICATION EitherFairSpec
PROPERTIES
  CallsComeBack
