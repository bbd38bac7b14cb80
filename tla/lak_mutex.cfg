SPECIFICATION Spec
CONSTANTS
  Nodes <- Nodes4
  Peers <- Peers4
  Schedule <- Others1
  Spaced = FALSE
  NetStatus <- Reliable
INVARIANTS
  Mutex
\* The test is over when all schedules are exhausted and the network is empty.
CHECK_DEADLOCK FALSE
