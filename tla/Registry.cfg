SPECIFICATION Spec
CONSTANTS
  Admin = {ann, bob}
  Xml = {strict, lax}
  Lax = {lax}
  Table = {t1}
  None = none
  MaxVersion = 2
  MaxWrites = 3
  Faults = 1
INVARIANTS ActiveExists Settled
SYMMETRY Admins
CHECK_DEADLOCK FALSE
