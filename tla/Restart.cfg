\* One restart is enough for the list to lose its end.
CONSTANTS
  Layouts <- MCLayouts
  Nctors = 1
  MaxStarts = 2
SPECIFICATION Spec
INVARIANTS SearchesEnd
CHECK_DEADLOCK FALSE
