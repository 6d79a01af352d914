\* Days of two ticks and months of two days, a start in the middle of a month,
\* and room for the turn of the next one, with two faults.  An hour is as
\* long as a day: it straddles two of them where the time zone differs.
SPECIFICATION Spec
CONSTANTS
  DayLength = 2
  MonthLength = 4
  Clamp = 2
  Retention = 3
  MinGap = 0
  StartAt = 3
  LegacyRows = {0, 1}
  MaxTime = 6
  MaxQueue = 2
  MaxFaults = 2
  HourLength = 2
  Offsets = {0, 1}
  WeekLength = 2
  FirstDay = 1
  HoursShown = 2
  DaysShown = 2
  WeeksShown = 2
  MonthsShown = 2
INVARIANTS TypeOK ChartsAgree NeverMoreThanElapsed CounterIsThisMonths
CHECK_DEADLOCK FALSE
