CONSTANTS
  Cmds = {"c1", "c2"}
  KindsOf <- MCKindsOf
  HookCount = 1
  RetryAttempts = 2
  MaxMoves = 1
  MaxArrivals = 1
SPECIFICATION Spec
PROPERTIES KeepsTheUnseen PublishedWasSeen NoFalseAlarm
CHECK_DEADLOCK FALSE
