\* Two connections, one dongle that may go through the whole protocol.
SPECIFICATION FairSpec
CONSTANTS
  MaxClients = 2
  MaxRequests = 4
  MaxQueue = 1
  Lifesigns = {"PAUSE"}
  SupportsHDCP = TRUE
INVARIANTS
  TypeOK
  AnsweredIsClean
  SessionsAccounted
  SetupAwaitsHDCP
  AbortsOnlyWhenCutOff
PROPERTIES
  ReapedOnlyIfSilent
  StopIsAnswered
CHECK_DEADLOCK FALSE
