SPECIFICATION Spec
CONSTANTS
  Cmds = {"c1", "c2"}
  KindsOf <- MCSpanning
  Refs <- MCRefs
  MaxLandings = 1
  MaxEdits = 1
  Faults = {"crash", "disk", "prune", "busy"}
INVARIANTS RefusedMeansUntouched OthersKept OkMeansGone JournalIsTrue
CHECK_DEADLOCK FALSE
