SPECIFICATION Spec
CONSTANTS
  Nodes <- Nodes2
  Peers <- Peers2
  Schedule <- Once
  Spaced = FALSE
  NetStatus <- Reliable
INVARIANTS
  Mutex
\* The test is over when all schedules are exhausted and the network is empty.
CHECK_DEADLOCK FALSE
