\* The process is down when a month ends.
SPECIFICATION Spec
CONSTANTS
  DayLength = 2
  MonthLength = 4
  Clamp = 2
  Retention = 3
  MinGap = 0
  StartAt = 3
  LegacyRows = {0, 1}
  MaxTime = 6
  MaxQueue = 2
  MaxFaults = 2
PROPERTY EndedMonthIsSaved
CHECK_DEADLOCK FALSE
