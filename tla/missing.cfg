SPECIFICATION FairMissingSpec
CONSTANTS
  MaxHeight = 4
  MaxBlocksPerRange = 3
  w1 = w1
  w2 = w2
  Workers = {w1, w2}
  MaxAdds = 2
  MaxManualCrashes = 1
  NoRange = NoRange
INVARIANTS
  MissingTypeOK
  OwedIsListed
  SharedNeedsExpiry
PROPERTIES
  ListedIsDone
CHECK_DEADLOCK FALSE
