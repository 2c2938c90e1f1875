CONSTANTS
  Pid = {1, 2, 3}
  Kinds = {"daemon", "stuck"}
  MaxBorn = 3
SPECIFICATION FairSpec
INVARIANTS SignalsStayHome NothingOutlives
PROPERTY StopEnds
CHECK_DEADLOCK FALSE
