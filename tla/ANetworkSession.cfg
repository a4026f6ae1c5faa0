\* Two sessions over two sockets: a socket number is used again.
SPECIFICATION FairSpec
CONSTANTS
  MaxSessions = 2
  MaxSocket = 2
  MaxRequests = 2
  MaxArrivals = 1
INVARIANTS
  NoWakeupLost
  FailuresToldOnce
  AbortsOnlyOnReusedSocket
PROPERTIES
  RequestsAreSent
CHECK_DEADLOCK FALSE
