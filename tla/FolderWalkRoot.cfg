\* Two scans: the second finds the root quarantined.
SPECIFICATION Spec
CONSTANTS
  home = home
  cloud = cloud
  lib = lib
  box1 = box1
  box2 = box2
  box3 = box3
  deep = deep
  shared = shared
  plain = plain
  Dirs <- MCDirs
  Files <- MCFiles
  Root = home
  Nowhere = Nowhere
  Parent <- MCParent
  Links <- MCLinks
  CloudAreas = {cloud}
  MaxDepth = 3
  MinSize = 1
  BlockedSiblings = 2
  MaxScans = 2
  MaxEvents = 1
INVARIANT RootIsNotWrittenOff
CHECK_DEADLOCK FALSE
