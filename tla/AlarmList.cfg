\* Three alarms; a callback stops any alarm but the one that follows its own.
CONSTANTS
  Alarms = {a1, a2, a3}
  Head = Head
  Null = Null
  Intervals = {0, 1}
  Periods = {0, 1, 2}
  StopsNext = FALSE
  MaxTicks = 4
SPECIFICATION FairSpec
INVARIANTS TypeOK ListIsRegistered
PROPERTIES ImplementsAlarmSet TickEnds
