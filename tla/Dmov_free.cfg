SPECIFICATION Spec
CONSTANTS
  BUF_NUM = 2
  PKTS = 1
  t1 = t1
  Threads = {t1}
  Kinds = {"okay", "error"}
  FreeOrder = TRUE
  SharedLine = TRUE
  FIFO_DEPTH = 2
  MAX_HANDLERS = 1
INVARIANTS
  ResetQuiesces
