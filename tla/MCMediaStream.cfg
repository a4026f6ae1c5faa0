SPECIFICATION Spec
CONSTANTS
  CounterMod = 4
  Sizes <- MCSizes
  Extras <- MCExtras
  MaxTracks = 2
  WireMod = 5
  SeqMod = 5
  MaskBits = 3
  PerRTP = 2
  MaxHistoryLength = 3
  MaxPorts = 2
  Plans <- MCPlans
  TrackKinds <- MCKinds
  MaxLate = 1
  MaxAhead = 0
  MaxFaults = 2
  MaxDropout = 3
  MaxMisorder = 2
  MinSequential = 2
INVARIANTS TypeOK ChecksHold ResendsWhatWasAsked Continuous
PROPERTIES NumberedAsSent LostIsRecovered
CHECK_DEADLOCK FALSE
