SPECIFICATION FairSpec
CONSTANTS
  Indices <- TwoNodes
  Settings = {5}
  Times = {10, 15}
  Inputs <- ShortFiles
  MaxAgain = 5
INVARIANTS
  ScheduleWritten
  CountRight
PROPERTIES
  ReadsToTheEnd
\* The test ends.
CHECK_DEADLOCK FALSE
