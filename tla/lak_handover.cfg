SPECIFICATION Spec
CONSTANTS
  Nodes <- Nodes4
  Peers <- Peers5
  Schedule <- FirstTwice
  Spaced = FALSE
  NetStatus <- Reliable
INVARIANTS
  TokenSurvives
  OneToken
  NobodyMisled
\* The test is over when all schedules are exhausted and the network is empty.
CHECK_DEADLOCK FALSE
