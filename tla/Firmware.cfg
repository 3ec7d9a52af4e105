\* Half periods of two ticks and, with all switches on, of less than one tick; words of three
\* values, so that the count wraps around after nine ticks.
CONSTANTS
  TicksPerSecond = 20
  DipSwitches = {0, 15}
  Room = 2
  Host = TRUE
  Word = 3
  MaxElapsed = 2
SPECIFICATION FairSpec
PROPERTIES ReportsSettle KeysForceLed KeepsBlinking BlinksInTime
