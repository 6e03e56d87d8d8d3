SPECIFICATION MCSpec
CONSTANTS
  Branch = {b1}
  Client = {c1}
  Key = {k1, k2}
  Poller = poller
  None = none
  MaxInstance = 2
  ScanLimit = 2
  RetryBatch = 1
  MaxCalls = 2
  Faults = 1
INVARIANTS Listed
PROPERTIES Delivered GhostsClosed
CHECK_DEADLOCK FALSE
