SPECIFICATION FairSpec
CONSTANTS
  MaxBlock = 4
  BatchSize = 2
  MaxLag = 2
  StartOffset = 1
  StartBlock = 1
  MaxRange = 2
  NodeLag = 1
  FromLatest = FALSE
  AllOrNothing = FALSE
  MaxRestarts = 1
  MaxLost = 1
INVARIANTS
  TypeOK
  SkipsAreBounded
PROPERTIES
  CursorAdvances
  RangesEnd
CHECK_DEADLOCK FALSE
