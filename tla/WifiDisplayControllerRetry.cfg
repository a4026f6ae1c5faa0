\* One display, asked for, given up and asked for again.
SPECIFICATION Spec
CONSTANTS
  Devices = {tv}
  null = null
  MaxRetries = 1
  ScanRetries = 1
  Plans <- ThreeRequests
PROPERTIES
  RetriedForItsOwnFailure
CHECK_DEADLOCK FALSE
