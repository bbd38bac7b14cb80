SPECIFICATION Spec
CONSTANTS
  Nodes <- Nodes4
  Peers <- Peers4
  Schedule <- PeersOfFirst
  Spaced = FALSE
  NetStatus <- Reliable
INVARIANTS
  TypeOK
  Mutex
  SectionHasToken
  CollectedInSection
  NeverUnsatisfied
\* The test is over when all schedules are exhausted and the network is empty.
CHECK_DEADLOCK FALSE
