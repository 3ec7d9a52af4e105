\* Safety: a ring of three slots (two usable) in each direction, FIFOs of two and one.
\* With no host and no timeout a blocking call waits forever, so the system may stop.
CONSTANTS
  BUF_LEN = 3
  TxDepth = 2
  RxDepth = 1
  TxThreshold = 1
  INT_MAX = 4
  DefaultTimeout = 2
  TimeoutArgs <- MCTimeoutArgs
  Unplugging = FALSE
  CallSizes = {0, 1, 3}
  MaxBytes = 4
CHECK_DEADLOCK FALSE
SPECIFICATION Spec
INVARIANTS TypeOK TxStream RxStream NoLostWakeup
PROPERTIES ImplementsPipes
