SPECIFICATION Spec
CONSTANTS
  Nodes <- Nodes3
  Peers <- Peers3
  Schedule <- SecondTwice
  Spaced = FALSE
  NetStatus <- ThirdUnreliable
INVARIANTS
  TypeOK
  LockInv
  QueueIssued
  AnswersFromQuorum
PROPERTIES
  EntryAnswered
\* The test is over when all schedules are exhausted and the network is empty.
CHECK_DEADLOCK FALSE
