SPECIFICATION FairSpec
CONSTANTS
  t1 = t1
  t2 = t2
  o1 = o1
  b1 = b1
  b2 = b2
  f1 = f1
  f2 = f2
  Txs = {t1, t2}
  Orders = {o1}
  NoOrder = NoOrder
  HashOf <- OwnHash
  OrderOf <- BothToOne
  ChainOf <- AllSui
  Registered = {t1, t2}
  MaxFaults = 1
  NoMsg = NoMsg
  MaxSweepAttempts = 3
  Backends = {b1, b2}
  Main = b1
  Early = {t1}
  RefundIds = {f1, f2}
  NoRefund = NoRefund
INVARIANTS
  TypeOK
  BooksMatchChain
  RefundedOnce
PROPERTIES
  PendingRefundEnds
CHECK_DEADLOCK FALSE
