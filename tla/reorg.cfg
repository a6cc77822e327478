SPECIFICATION FairSpec
CONSTANTS
  MaxBlock = 4
  MaxForks = 2
  MaxDepth = 2
  MaxFaults = 1
  BatchSize = 2
  Window = 1
  MaxLag = 2
  StartOffset = 1
  MaxBlockHashSize = 2
  MaxAttempts = 2
  NoHash = NoHash
INVARIANTS
  TypeOK
  NoForkMissed
PROPERTIES
  ForksAreRepaired
CHECK_DEADLOCK FALSE
