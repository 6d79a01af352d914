\* The claim: three threads, a scan that hangs, one that takes over, and a third
\* caller; two ticks, so that a claim made at the first is presumed wedged at the
\* second.  The walk: two scans, so that the second meets what the first has
\* learned, and one event of the world between or during them.
SPECIFICATION ScanSpec
CONSTANTS
  home = home
  cloud = cloud
  lib = lib
  box1 = box1
  box2 = box2
  box3 = box3
  deep = deep
  shared = shared
  plain = plain
  Dirs <- MCDirs
  Files <- MCFiles
  Root = home
  Nowhere = Nowhere
  Parent <- MCParent
  Links <- MCLinks
  CloudAreas = {cloud}
  MaxDepth = 3
  MinSize = 1
  BlockedSiblings = 2
  MaxScans = 2
  MaxEvents = 1
  Scans = {timer, request1, request2}
  Timer = timer
  NoScan = NoScan
  WedgedAfter = 1
  MaxClock = 2
INVARIANTS
  TypeOK RowsAreHonest OneThreadPerDirectory CollapseBoundsProbes QuarantineIsEarned
  ClaimTypeOK ClaimHasItsGuard ExclusiveUntilReassigned
PROPERTY IsLockUntilReassigned
CHECK_DEADLOCK FALSE
