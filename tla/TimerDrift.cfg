\* Every tick is handled within one cycle of being due.
CONSTANTS
  W = 4
  Delta = 2
  MHz = 2
  SleepArgs = {}
  MaxLatency = 1
  MaxTime = 8
SPECIFICATION Spec
INVARIANT TicksPerSecond
