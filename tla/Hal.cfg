\* Three descriptors beside the standard streams; one filesystem whose open may fail. Two
\* platform interrupts and two routines; traps three deep in the builds whose context is
\* restored; three interrupts of the CLIC, two of them in one register, and two calls; three
\* features, nested up to three deep, with an increment of three of the stack; a second of four
\* microseconds and words of three values; two records to a slab of the profiler, memory for two
\* slabs, and a text of two buckets and a byte; words of eight bits, an echo of four characters
\* and a buffer of two; two lines of two bytes in the cache and as many in the memory.
CONSTANTS
  ALT_MAX_FD = 6
  NullDev = NullDev
  Uart = Uart
  Filesystems = {disk}
  MayRefuse = {disk}
  None = None
  NULL = NULL
  FlagArgs <- MCFlagArgs
  ALT_NIRQ = 2
  Isrs = {"isr1", "isr2"}
  Builds = {"vectored", "direct", "preempt"}
  Levels = {1, 2}
  MaxDepth = 3
  Codes = {17, 18, 21}
  LevelBits = 1
  PriorityBits = 1
  Triggers = {0, 3}
  MaxRequests = 2
  Hardware <- MCHardware
  DFH_PARENT_STACK_INCR_SIZE = 3
  ALT_US = 4
  TickRates = {1, 2}
  Times <- MCTimes
  Word = 3
  MaxTicks = 7
  Layouts <- MCLayouts
  Nctors = 2
  MaxStarts = 3
  Arcs <- MCArcs
  Increments = {18}
  heap_limit = 60
  StackTops = {58}
  TextSize = 65
  MCOUNT_SLAB_INCREMENT = 28
  MaxCalls = 3
  Pieces <- MCPieces
  Values = {0, 10, 128, 255}
  WordSize = 8
  Texts <- MCTexts
  ALT_LOG_WRITE_ECHO_LEN = 4
  ALT_LOG_SYS_CLK_INTERVAL = 1
  ALT_PUTBUF_SIZE = 2
  Names <- MCNames
  Wanted <- MCWanted
  Files <- MCFiles
  MAX_STRING_LENGTH = 3
  MemorySize = 4
  ALT_CPU_DCACHE_SIZE = 4
  ALT_CPU_DCACHE_LINE_SIZE = 2
SPECIFICATION HalSpec
INVARIANTS HalTypeOK PoolIsExact StdioConnected DispatchIsSound CriticalSectionsHold ReturnsWhereInterrupted FieldsAsAsked ScanIsSound ClockIsKept StartIsSound ProfileIsSound LogIsSound ChannelsAreFound CachesAreSound
PROPERTIES LocksAreSound
CHECK_DEADLOCK FALSE
