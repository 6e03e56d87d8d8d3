SPECIFICATION Spec
CONSTANTS
  Client = {c1, c2}
  Part <- Tables
  Row = "instance"
  Value <- Columns
  Final <- Ended
  Handler <- Runs
  Cc = {1}
  NoClient = NoClient
  MaxVersion = 2
PROPERTIES AtomicSpec ReadMarkKept
CHECK_DEADLOCK FALSE
