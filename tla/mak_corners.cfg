SPECIFICATION FairSpec
CONSTANTS
  Nodes <- Nodes4
  Peers <- Peers4
  Schedule <- Corners
  Spaced = FALSE
  NetStatus <- Reliable
INVARIANTS
  Mutex
  RelinquishFromHolder
PROPERTIES
  UnprocessedStay
  SectionEnds
  Served
\* The test is over when all schedules are exhausted and the network is empty.
CHECK_DEADLOCK FALSE
