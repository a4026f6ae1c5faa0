\* Two displays; one retry of a connection, one of a discovery.
SPECIFICATION Spec
CONSTANTS
  Devices = {tv, beamer}
  null = null
  MaxRetries = 1
  ScanRetries = 1
  Plans <- MCPlans
INVARIANTS
  Consistent
PROPERTIES
  ToldInOrder
  WishesAreSettled
  ScanIsFinished
CHECK_DEADLOCK FALSE
