\* Seconds, with the intervals of the code.  A collection takes one second or
\* two: less than its interval or all of it, and more when it is late.  A page
\* has one socket at a time, so one stands for all of them in turn.  Two loads:
\* the answer to one may arrive while, or after, the other is asked for.
SPECIFICATION Spec
CONSTANTS
  Sockets = {s}
  Timescales = {hour, week}
  Active = 2
  Idle = 5
  Sampling = 1
  Longest = 2
  Stale = 6
  Capacity = 1
  Wire = 1
  MaxAge = 3
  MaxFetches = 2
  MaxBacklog = 2
  MaxFaults = 2
INVARIANTS TypeOK ChartIsOfTheTimescale
PROPERTIES FeedIsWhole HealthyIsLeftAlone NeverFrozen
CHECK_DEADLOCK FALSE
