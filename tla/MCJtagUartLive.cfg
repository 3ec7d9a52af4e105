\* Liveness: rings of one usable byte and FIFOs of one, so that every call waits.
CONSTANTS
  BUF_LEN = 2
  TxDepth = 1
  RxDepth = 1
  TxThreshold = 0
  INT_MAX = 4
  DefaultTimeout = 2
  Unplugging = TRUE
  TimeoutArgs = {}
  CallSizes = {3}
  MaxBytes = 3
SPECIFICATION FairSpec
PROPERTIES CallersAreFreed BytesArrive
