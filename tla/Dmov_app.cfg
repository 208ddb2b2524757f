SPECIFICATION FairSpec
CONSTANTS
  BUF_NUM = 3
  PKTS = 4
  t1 = t1
  Threads = {t1}
  Kinds = {"okay"}
  FreeOrder = FALSE
  SharedLine = TRUE
  FIFO_DEPTH = 3
  MAX_HANDLERS = 1
INVARIANTS
  OrderInv
  TypeOK
  OneOwner
  HeldIsIntact
  InOrder
  ExpectedTag
  Released
PROPERTIES
  RefinesRing
  GetReturns
