SPECIFICATION FairSpec
CONSTANTS
  Nodes = {1, 2}
  Switch = 5
  Hosts = {2, 44}
  Patience = {TRUE, FALSE}
  Work = 1
  OldLines = {1}
INVARIANTS
  LogsComplete
  StoppedAfterWork
  OneAlgorithm
PROPERTIES
  Completes
\* The test ends; it waits for ever when a node has missed START.
CHECK_DEADLOCK FALSE
