SPECIFICATION MCSpec
CONSTANTS
  Sub = {s1, s2}
  Worker = {w1, w2}
  Nobody = nobody
  Fixed = s1
  MaxRow = 2
  RetryMax = 2
  Batch = 2
  LeaseTicks = 1
  Faults = 1
  Orders = 1
  Endless = FALSE
PROPERTIES OrderedSpec HolderSettles SettledFinal Drained
CHECK_DEADLOCK FALSE
