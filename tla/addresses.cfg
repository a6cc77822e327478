SPECIFICATION FairSpec
CONSTANTS
  n1 = n1
  n2 = n2
  o1 = o1
  c1 = c1
  c2 = c2
  sui = sui
  evm = evm
  Names = {n1, n2}
  Orders = {o1}
  NetworkList <- SuiFirst
  Sui = sui
  Clients = {c1, c2}
  MaxClock = 1
  MaxDBFaults = 1
  Overlap = 1
  BatchSize = 2
  MaxRestarts = 1
INVARIANTS
  TypeOK
  IndicesDense
  HandedIsOwn
  PositionBehindRows
PROPERTIES
  FilterCatchesUp
CHECK_DEADLOCK FALSE
