CONSTANTS
  r1 = r1
  r2 = r2
  g = g
  Git = Git
  NoMessage = NoMessage
  Run = {r1, r2}
  Kinds = {"commit", "amend"}
  Worktree <- Apart
  GitChanges = {g}
  Movers = {r1}
  Hides <- HidesOne
  CASMaxAttempts = 2
  MaxGitMoves = 1
  Faults = {"disk", "reject", "transient", "append", "lock", "crash"}
SPECIFICATION FairSpec
INVARIANTS MintedRecordsHold VerdictIsTrue
PROPERTIES RunEnds ImplementsBranch
CHECK_DEADLOCK FALSE
