SPECIFICATION Spec
CONSTANTS
  Flow <- AddSignRejectFlow
  Def <- Definitions
  Calls <- AddSignRejectCalls
  MaxToken = 5
  MaxTask = 3
  MaxScope = 1
INVARIANTS SuspendedHasChild
CHECK_DEADLOCK FALSE
