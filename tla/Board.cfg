\* Two detectors, of which one may reset the other through the HPS; pulses of three cycles.
CONSTANTS
  Buttons = {key}
  Detectors = {cold, warm}
  TIMEOUT = 2
  Counters = 4
  PULSE_EXT = 3
SPECIFICATION FairSpec
INVARIANTS TypeOK DebouncedMeansHeld
PROPERTIES PulsesAreSound ButtonIsSeen NiosStarts
