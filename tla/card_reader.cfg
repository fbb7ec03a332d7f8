SPECIFICATION FairSpec
CONSTANTS
  MaxReads = 4
  MaxResets = 2
  MaxBroken = 1
CHECK_DEADLOCK FALSE
INVARIANTS TypeOK OwnIdentifier LeavesNothing
PROPERTY ReadEnds
