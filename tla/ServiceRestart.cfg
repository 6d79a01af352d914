\* A process and its successor, two polls that may overtake each other, two
\* clicks, and one failure.
SPECIFICATION Spec
CONSTANTS
  MaxPid = 2
  Polls = {p1, p2}
  RestartGrace = 1
  GiveUp = 1
  MaxClicks = 2
  MaxFaults = 1
INVARIANTS TypeOK OnlyTheStuckAreKilled DoneMeansEnded
PROPERTIES StuckProcessesEnd PanelCatchesUp
CHECK_DEADLOCK FALSE
