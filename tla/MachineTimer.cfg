\* Words of four values: the clock carries into its high word, and so does its target.
\* MaxLatency = MaxTime: interrupts may be held off for any time.
CONSTANTS
  W = 4
  Delta = 2
  MHz = 2
  SleepArgs = {1}
  MaxLatency = 6
  MaxTime = 6
SPECIFICATION FairSpec
INVARIANTS TypeOK ClockIsSound SleepLongEnough
PROPERTIES DueIsHandled SleepEnds
