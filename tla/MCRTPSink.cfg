\* Sequence numbers wrap at 5, twice in 11 packets; up to one packet in a row
\* is lost, and a packet may be late by one, across a wrap too.
SPECIFICATION Spec
CONSTANTS
  SeqMod = 5
  MaxDropout = 3
  MaxMisorder = 2
  MinSequential = 2
  MaxIndex = 10
  MaxLate = 1
  MaxGap = 2
  Outages <- NoOutages
  MaxCopies = 1
INVARIANTS
  TypeOK
  ReportIsTrue
  PlayedInSendingOrder
PROPERTIES
  ReportsGoOn
CHECK_DEADLOCK FALSE
