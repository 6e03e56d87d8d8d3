SPECIFICATION FairSpec
CONSTANTS
  Worker = {w1, w2}
  Token = {t1}
  Nobody = nobody
  Hops = 2
  MaxRetries = 2
  Faults = 2
  CrashPoints <- BeforeDelete
INVARIANTS Recoverable OnlyByDelegate
PROPERTIES Decided Drained
CHECK_DEADLOCK FALSE
