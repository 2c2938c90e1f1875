CONSTANTS
  Path = {"f", "g", "n", "m"}
  Tracked = {"f", "g"}
  Busy = {"f", "n"}
  Region = {1, 2}
  Writes <- MCWrites
  Lands <- MCLands
  Moves <- MCMoves
  CASMaxAttempts = 2
  MaxRuns = 2
  MaxEdits = 1
  MaxAdds = 1
  MaxArrivals = 1
SPECIFICATION Spec
INVARIANTS StagedWorkKept
PROPERTIES PutBackIsTrue CommitIsWhatWasNamed EditsKept
CHECK_DEADLOCK FALSE
