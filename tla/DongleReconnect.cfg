\* As Dongle.cfg.
SPECIFICATION Spec
CONSTANTS
  MaxClients = 2
  MaxRequests = 4
  MaxQueue = 1
  Lifesigns = {"PAUSE"}
  SupportsHDCP = TRUE
INVARIANT
  ClientIsAwaited
CHECK_DEADLOCK FALSE
