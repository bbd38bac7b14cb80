SPECIFICATION Spec
CONSTANTS
  Sizes <- AllSizes
  Reliable <- AllReliable
  Congested <- AllCongested
INVARIANTS
  QuorumsIntersect
  QuorumsMutual
  ReadyToStart
\* The preparation ends.
CHECK_DEADLOCK FALSE
