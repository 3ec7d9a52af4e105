\* Two descriptors beside the standard streams are enough for a lock that is shared.
CONSTANTS
  ALT_MAX_FD = 5
  NullDev = NullDev
  Uart = Uart
  Filesystems = {}
  MayRefuse = {}
  None = None
  FlagArgs <- MCFlagArgs
SPECIFICATION Spec
INVARIANT LockIsExclusive
