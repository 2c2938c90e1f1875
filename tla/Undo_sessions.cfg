CONSTANTS
  s1 = s1
  s2 = s2
  Session = {s1, s2}
  Counts = {1, 2}
  Bypassing = {FALSE, TRUE}
  Guarded = TRUE
  Unlogged = {"elsewhere", "restore", "rebase"}
  Faulty = TRUE
  MaxCommits = 3
  MaxLog = 3
  MaxOutside = 1
SPECIFICATION UndoSpec
SYMMETRY SessionSymmetry
INVARIANTS NoFalseBypass
PROPERTIES UndoTakesOnlyRecorded ImplementsUndoStack
CHECK_DEADLOCK FALSE
