SPECIFICATION FairSpec
CONSTANTS
  ForeignServes = TRUE
  MaxLogLines = 2
INVARIANTS
  StartedIsServed
PROPERTIES
  ConnectionIsNotMissed
CHECK_DEADLOCK FALSE
