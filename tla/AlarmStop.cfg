\* A callback may stop the alarm that follows its own.
CONSTANTS
  Alarms = {a1, a2}
  Head = Head
  Null = Null
  Intervals = {0}
  Periods = {0, 1}
  StopsNext = TRUE
  MaxTicks = 2
SPECIFICATION Spec
PROPERTY OnlyRegisteredCalled
