\* The timer and one request at a time, two folders, one change of the disk:
\* a walk can see one folder before and the other after a change, and another
\* scan can follow it.
SPECIFICATION Spec
CONSTANTS
  Scans = {timer, request}
  Timer = timer
  Paths = {a, b}
  WedgedAfter = 1
  Interval = 1
  MaxClock = 1
  MaxEpoch = 1
  MaxRequests = 1
  MaxFaults = 1
INVARIANTS TypeOK RowsBelongToTheTree
PROPERTIES RowsNeverGoBack DueTreeIsRefreshed WedgeIsNotForever
CHECK_DEADLOCK FALSE
