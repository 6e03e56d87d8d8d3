SPECIFICATION Spec
CONSTANTS
  Client = {c1, c2}
  Value = {v1, v2}
  None = none
  MaxTask = 2
  MaxOpened = 2
  MaxHistory = 2
  MaxRequests = 3
  Faults = 1
INVARIANTS Told HistoryChained NoOrphan
SYMMETRY Alike
CHECK_DEADLOCK FALSE
