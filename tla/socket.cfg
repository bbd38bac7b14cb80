\* Both environments: one where nothing fails, and one where the connection may
\* fail and the switch process may die at any moment.
CONSTANTS
  Count = 2
  Faults = {TRUE, FALSE}
SPECIFICATION FairSpec
INVARIANTS TypeOK InOrder NothingLost DeletedUnused
PROPERTIES Ends HangsOnlyAtWrite
CHECK_DEADLOCK FALSE
