\* No host reads the console.
CONSTANTS
  TicksPerSecond = 20
  DipSwitches = {0, 15}
  Room = 2
  Host = FALSE
  Word = 3
  MaxElapsed = 2
SPECIFICATION FairSpec
PROPERTY KeepsBlinking
