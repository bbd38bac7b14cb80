SPECIFICATION FairSpec
CONSTANTS
  Nodes <- Nodes2
  Peers <- Peers2
  NetStatus <- OneUnreliable
  Cut = {2}
  Early = {2}
  Controls <- Control
  MaxRest = 2
  Backlog = 1
  Budget <- TwoAndOne
INVARIANTS
  TypeOK
PROPERTIES
  ImplementsNet
\* The run loops stop when they have sent all they may.
CHECK_DEADLOCK FALSE
