SPECIFICATION FairSpec
CONSTANTS
  t1 = t1
  t2 = t2
  t3 = t3
  o1 = o1
  r1 = r1
  r2 = r2
  Txs = {t1, t2}
  Orders = {o1}
  NoOrder = NoOrder
  HashOf <- OwnHash
  OrderOf <- TwoToOneOrder
  ChainOf <- AllSui
  Registered = {t1, t2}
  MaxFaults = 1
  Reqs = {r1, r2}
  NoReq = NoReq
  NoTx = NoTx
  MaxAttempts = 2
  StreamCapacity = 2
  NoMsg = NoMsg
  MaxSweepAttempts = 3
INVARIANTS
  TypeOK
  SweptIsInTreasury
PROPERTIES
  CopiesNeedRedelivery
  CustodySpec
  QueuedIsStored
  QueuedIsSwept
CHECK_DEADLOCK FALSE
