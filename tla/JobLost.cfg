SPECIFICATION Spec
CONSTANTS
  Worker = {w1}
  Token = {t1}
  Nobody = nobody
  Hops = 1
  MaxRetries = 1
  Faults = 1
  CrashPoints <- AfterDelete
INVARIANTS Recoverable
CHECK_DEADLOCK FALSE
