CONSTANTS
  p1 = p1
  p2 = p2
  p3 = p3
  Proc = {p1, p2, p3}
  Inode = {i1, i2}
  NoInode = NoInode
  Corrupt = Corrupt
  PidOf <- SharedPid
  HostOf <- Here
  StartKnown = TRUE
  Signals = TRUE
  Unlocks = TRUE
SPECIFICATION Spec
SYMMETRY InodeSymmetry
INVARIANT ReleaseRemovesOnlyOwn
PROPERTY ImplementsMutex
CHECK_DEADLOCK FALSE
