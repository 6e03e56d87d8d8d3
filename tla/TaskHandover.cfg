SPECIFICATION Spec
CONSTANTS
  User = {ann, bob}
  None = none
  MaxTask = 3
  MaxLedger = 4
INVARIANTS OneAtWork PoolUnheld LedgerTells
SYMMETRY Users
CHECK_DEADLOCK FALSE
