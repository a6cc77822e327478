SPECIFICATION FairStarted
CONSTANTS
  n1 = n1
  n2 = n2
  Nodes = {n1, n2}
  Top = 3
  Batch = 2
  Parallel = TRUE
  DebugTrace = TRUE
  Attempts = 2
  Holds <- EveryKind
  NoNode = NoNode
  BufferSize = 1
  Preferred = n1
  MaxFaults = 1
INVARIANTS
  TypesOK
  LossOnEvmHasCause
  NoTransferMissed
  BufferIsBounded
PROPERTIES
  HeadIsReached
