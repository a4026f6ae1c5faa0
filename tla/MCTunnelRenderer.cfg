\* Four sequence numbers arrive in any order, up to five packets in all
\* (so losses, duplicates and late packets occur), two media buffers.
SPECIFICATION FairSpec
CONSTANTS
  ExtSeqNos <- MCExtSeqNos
  Buffers <- MCBuffers
  Wait = 2
  MaxArrivals = 5
INVARIANTS
  TypeOK
  NoWorkForgotten
  AskedOnceForMissing
  BuffersConserved
PROPERTIES
  DueIsPlayed
  Reassembles
\* The network may fall silent: then nothing is left to do.
CHECK_DEADLOCK FALSE
