SPECIFICATION FairSpec
CONSTANTS
  Nodes <- Nodes2
  Peers <- Peers2
  Schedule <- Twelve
  Spaced = TRUE
  NetStatus <- Reliable
PROPERTIES
  CollectedServed
  RequestServed
\* The test is over when all schedules are exhausted and the network is empty.
CHECK_DEADLOCK FALSE
