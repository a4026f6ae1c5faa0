\* As MCRTPSink, but the stream may skip 3 packets at once.
SPECIFICATION Spec
CONSTANTS
  SeqMod = 5
  MaxDropout = 3
  MaxMisorder = 2
  MinSequential = 2
  MaxIndex = 10
  MaxLate = 1
  MaxGap = 2
  Outages <- LongOutage
  MaxCopies = 1
PROPERTY
  ResyncedIsPlayable
CHECK_DEADLOCK FALSE
