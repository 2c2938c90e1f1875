CONSTANTS
  s1 = s1
  s2 = s2
  None = None
  Sources = {s1, s2}
  Faults = {"crash", "append", "disk", "elsewhere", "undo"}
  MaxOps = 3
  MaxCommits = 2
SPECIFICATION Spec
SYMMETRY SourceSymmetry
INVARIANTS OneConclusion WorkIsKeptOnce ReportIsTrue
PROPERTIES NothingSwallowed EditsKept
CHECK_DEADLOCK FALSE
