\* The whole session of one source and one sink; no bound but one connection.
SPECIFICATION FairSession
CONSTANTS
  MaxClients = 1
  Lifesigns = {}
  SupportsHDCP = FALSE
INVARIANTS
  SocketsAreBound
  StatesAgree
PROPERTIES
  ReachesPlaying
  StopReachesSink
CHECK_DEADLOCK FALSE
