SPECIFICATION FairSpec
CONSTANTS
  Caller = {c1, c2}
  t1 = t1
  t2 = t2
  Token = {t1, t2}
  Ways <- PassWays
  MaxChild = 4
  Faults = 2
  CrashPoints <- OperatorPoints
INVARIANTS OneChild PassedByChild
PROPERTIES CancelReaches Served
CHECK_DEADLOCK FALSE
