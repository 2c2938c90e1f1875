CONSTANTS
  Repo = {"p", "s", "t"}
  None = None
  ParentOf <- MCParentOf
  Depth <- MCDepth
  Run = {r1, r2, r3}
  Ops = {"commit", "undo", "branch", "record", "rewrite"}
  CASMaxAttempts = 2
  MaxCommits = 4
  MaxMishaps = 1
SPECIFICATION Spec
SYMMETRY RunSymmetry
INVARIANTS NoWaitCycle GitlinkFollows
CHECK_DEADLOCK FALSE
