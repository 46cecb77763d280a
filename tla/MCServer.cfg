CONSTANTS
  Conns = {c1, c2}
  None = None
SPECIFICATION LiveSpec
CHECK_DEADLOCK FALSE
INVARIANTS
  ClientIsRead
  NoneIsLost
PROPERTIES
  AcceptsAgain
  GoneIsNoticed
