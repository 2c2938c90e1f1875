CONSTANTS
  p1 = p1
  p2 = p2
  p3 = p3
  Proc = {p1, p2}
  Inode = {i1, i2}
  NoInode = NoInode
  Corrupt = Corrupt
  PidOf <- OwnPids
  HostOf <- Here
  StartKnown = TRUE
  Signals = TRUE
  Unlocks = FALSE
SPECIFICATION FairSpec
PROPERTIES AcquireEnds DeadLockYields
CHECK_DEADLOCK FALSE
